---- MODULE Spec2Model ----
(***************************************************************************)
(* A model of the repository selection and scoring subsystem               *)
(* (repository_selector.py, main.py), of the commit sampler and the        *)
(* activity statistics (analyze_temportal_patterns.py) and of the run of   *)
(* the four analysis phases (StyleAnalyzer.analyze) of the stylometry      *)
(* analyser.  Each specification runs one operation from its inputs; two   *)
(* run the construction of a StyleAnalyzer up to the sampling, and the     *)
(* selection called again on the same selector.                            *)
(*                                                                         *)
(* Numbers that Python computes in floating point are modelled as exact    *)
(* rationals <<numerator, denominator>> in lowest terms.  Time is counted  *)
(* in ticks, TicksPerDay of them to a day; a timestamp is its tick, and a  *)
(* naive datetime is the tick the clock of the local zone shows.           *)
(***************************************************************************)
EXTENDS Integers, Sequences, FiniteSets, TLC

VARIABLES
    pc,                 \* position of the run
    now,                \* datetime.now(), in ticks
    report_data,        \* the loaded report.json
    checkout,           \* the local checkouts: what the file system and git answer
    given,              \* the list handed to _select_best_repositories, as handed in
    max_repos,          \* its max_repos argument
    repositories,       \* the scored list (sorted in place by the selection)
    selected,           \* the value _select_best_repositories returned
    repo_metadata,      \* RepositorySelector.repo_metadata
    sources_to_analyze, \* StyleAnalyzer.sources_to_analyze
    blame,              \* what `git blame --porcelain` answers for one file
    author_stats,       \* the value _get_file_author_stats returned
    sources_data,       \* the repository structure data handed to the sampler
    target_repos,       \* the sampler's target repositories
    git,                \* what git answers the sampler, per repository and file
    commit_contents,    \* the value _get_commit_contents returned
    repo_files,         \* the files repo_path.rglob('*') yields, each with git's blame answer
    kept_files,         \* the value _analyze_contribution_files returned
    log_answer,         \* what `git log --format=%at` answers for one checkout
    commit_feed,        \* the report's commits of that repository
    stats_returned,     \* the value _get_repository_stats returned
    raw_diff,           \* the lines of the diff text handed to _clean_diff
    cleaned,            \* the lines of the text _clean_diff returned
    commit_times,       \* the list handed to _analyze_activity_patterns (sorted in place)
    activity_patterns,  \* the value _analyze_activity_patterns returned
    llm,                \* what generate_json_response does on each call of a run of analyze
    profile,            \* the value StyleAnalyzer.analyze returned
    selector,           \* the selector argument of StyleAnalyzer.__init__
    events,             \* the repositories profiled, scored and sampled so far, in the order of the run
    calls,              \* the calls of select_repositories made on the RepositorySelector
    previous_names,     \* the keys repo_metadata had before the latest call
    llm_calls,          \* the calls of generate_json_response a run of analyze made, as [phase, repo]
    tz                  \* the local time zone of the machine: its clock is set back by back ticks at tick at

vars == <<pc, now, report_data, checkout, given, max_repos, repositories,
          selected, repo_metadata, sources_to_analyze, blame, author_stats,
          sources_data, target_repos, git, commit_contents,
          repo_files, kept_files,
          log_answer, commit_feed, stats_returned,
          raw_diff, cleaned,
          commit_times, activity_patterns,
          llm, profile,
          selector, events,
          calls, previous_names,
          llm_calls,
          tz>>

\* the variables of the runs of single functions, and their values in the
\* other runs
walk_vars == <<repo_files, kept_files>>
WalkIdle ==
    /\ repo_files = <<>>
    /\ kept_files = <<>>

stats_vars == <<log_answer, commit_feed, stats_returned>>
StatsIdle ==
    /\ log_answer = [returncode |-> 0, stdout |-> <<>>]
    /\ commit_feed = <<>>
    /\ stats_returned = <<>>

clean_vars == <<raw_diff, cleaned>>
CleanIdle ==
    /\ raw_diff = <<>>
    /\ cleaned = <<>>

activity_vars == <<commit_times, activity_patterns>>
ActivityIdle ==
    /\ commit_times = <<>>
    /\ activity_patterns = <<>>

analyze_vars == <<llm, profile>>
AnalyzeIdle ==
    /\ llm = <<>>
    /\ profile = <<>>

pipeline_vars == <<selector, events>>
PipelineIdle ==
    /\ selector = ""
    /\ events = <<>>

reselect_vars == <<calls, previous_names>>
ReselectIdle ==
    /\ calls = 0
    /\ previous_names = {}

asked_vars == <<llm_calls>>
AskedIdle ==
    /\ llm_calls = {}

clock_vars == <<tz>>
ClockIdle ==
    /\ tz = [at |-> 0, back |-> 0]

(***************************************************************************)
(* Bounds of the model.                                                    *)
(***************************************************************************)
MaxTick == 1          \* commit timestamps are 0..MaxTick
TicksPerDay == 2      \* ticks to a day (86400 seconds in the program)
MaxBlameLines == 3    \* lines of a blame output
MaxList == 3          \* length of a list handed to _select_best_repositories
MaxCut == 2           \* largest max_repos tried on such a list
MaxHist == 5          \* length of a file's commit history
MaxLog == 2           \* timestamps of a git log answer, commits of a feed
MaxDiff == 3          \* lines of a diff handed to _clean_diff
MaxTimes == 3         \* commit times handed to _analyze_activity_patterns
MaxCalls == 2         \* calls of select_repositories on one RepositorySelector
MaxWalk == 2          \* files of a walk of a checkout
MaxDate == 2          \* commit dates are 1..MaxDate, ordered as their strings are

(***************************************************************************)
(* Program constants.                                                      *)
(***************************************************************************)
default_max_repos == 15
min_contribution == 20
recency_max == 35
recency_days_per_point == 30
activity_max == 35
contribution_max == 30
fallback_max == 15

username == "u"
Authors == {"u", "v"}
Repos == {"a", "b"}
Ticks == 0 .. MaxTick

(***************************************************************************)
(* Python values.                                                          *)
(***************************************************************************)
EmptyDict == [k \in {} |-> 0]

Min(a, b) == IF a <= b THEN a ELSE b
Max(a, b) == IF a >= b THEN a ELSE b
Abs(n) == IF n < 0 THEN -n ELSE n

RECURSIVE GCD(_, _)
GCD(a, b) == IF b = 0 THEN a ELSE GCD(b, a % b)

\* the rational n/d (d > 0) in lowest terms
Rat(n, d) == LET g == GCD(Abs(n), d) IN <<n \div g, d \div g>>
RInt(n) == <<n, 1>>
RAdd(x, y) == Rat(x[1] * y[2] + y[1] * x[2], x[2] * y[2])
RSub(x, y) == Rat(x[1] * y[2] - y[1] * x[2], x[2] * y[2])
RMul(x, y) == Rat(x[1] * y[1], x[2] * y[2])
RDivInt(x, k) == Rat(x[1], x[2] * k)
RLe(x, y) == x[1] * y[2] <= y[1] * x[2]
RLt(x, y) == x[1] * y[2] < y[1] * x[2]
RMin(x, y) == IF RLe(x, y) THEN x ELSE y
RMax(x, y) == IF RLe(y, x) THEN x ELSE y

RECURSIVE RSum(_)
RSum(s) == IF s = <<>> THEN RInt(0) ELSE RAdd(s[1], RSum(Tail(s)))

Range(s) == {s[i] : i \in 1 .. Len(s)}
Take(s, n) == SubSeq(s, 1, Min(n, Len(s)))
Perms(S) == {s \in [1 .. Cardinality(S) -> S] : \A i, j \in DOMAIN s : i # j => s[i] # s[j]}
SeqsUpTo(S, n) == UNION {[1 .. k -> S] : k \in 0 .. n}

(***************************************************************************)
(* 4.1  _get_file_author_stats.  A blame answer is                         *)
(* [raised, returncode, stdout]; stdout is a sequence of lines, a line is  *)
(* [prefix, rest] and reads prefix followed by rest.                       *)
(***************************************************************************)
BlameLines ==
    {[prefix |-> "author ", rest |-> a] : a \in Authors}
    \cup {[prefix |-> "author-mail ", rest |-> "<u@x>"],
          [prefix |-> "\t", rest |-> "author u"]}

BlameAnswers(longest) ==
    {[raised |-> TRUE, returncode |-> 0, stdout |-> <<>>]}
    \cup {[raised |-> FALSE, returncode |-> 128, stdout |-> <<>>]}
    \cup {[raised |-> FALSE, returncode |-> 0, stdout |-> s] :
             s \in SeqsUpTo(BlameLines, longest)}

\* the lines that start with 'author '
author_lines_of(stdout) == SelectSeq(stdout, LAMBDA l : l.prefix = "author ")

\* author_lines[author] after the loop
author_line_count(stdout, author) ==
    Len(SelectSeq(author_lines_of(stdout), LAMBDA l : l.rest = author))

\* a variant that counts every line of the output, not the 'author ' lines alone
total_lines_counting_all(stdout) == Len(stdout)

\* total_lines after the loop
total_lines_of(stdout) == Len(author_lines_of(stdout))

_get_file_author_stats(b) ==
    IF b.raised THEN EmptyDict
    ELSE IF b.returncode # 0 THEN EmptyDict
    ELSE IF total_lines_of(b.stdout) = 0 THEN EmptyDict
    ELSE [author \in {l.rest : l \in Range(author_lines_of(b.stdout))} |->
             Rat(author_line_count(b.stdout, author) * 100, total_lines_of(b.stdout))]

(***************************************************************************)
(* _is_analyzable_file.  A path is the sequence of its parts.              *)
(***************************************************************************)
excluded_paths ==
    {"node_modules", "__pycache__", "build", "dist", ".git",
     "vendor", "third_party", "external"}

RELEVANT_EXTENSIONS ==
    {".py", ".js", ".ts", ".jsx", ".tsx", ".java", ".cpp", ".c", ".h",
     ".hpp", ".rb", ".php", ".go", ".rs", ".swift", ".kt", ".kts", ".scala",
     ".pl", ".pm", ".r", ".sh", ".bat", ".ps1", ".lua", ".sql", ".html",
     ".css", ".xml", ".json", ".yaml", ".yml", ".md", ".ipynb", ".m", ".mm",
     ".vb", ".cs", ".fs", ".fsx", ".erl", ".hrl", ".ex", ".exs", ".dart",
     ".groovy", ".jl", ".clj", ".cljs", ".coffee", ".litcoffee", ".rkt",
     ".hs", ".lhs", ".ml", ".mli", ".nim", ".cr", ".nimble", ".hx", ".hxsl",
     ".hxproj", ".hxcpp", ".hxcs", ".hxjava", ".hxnode", ".hxphp", ".hxpy",
     ".hxrb", ".hxswf", ".hxvm", ".hxweb", ".hxwin", ".hxwpf", ".sol", ".vy"}

\* Path.suffix of the file names the model uses
path_suffix(name) ==
    CASE name = "main.py" -> ".py"
      [] name = "Main.PY" -> ".PY"
      [] name = "logo.png" -> ".png"
      [] OTHER -> ""

\* str.lower of the suffixes the model uses
lower(s) == IF s = ".PY" THEN ".py" ELSE s

_is_analyzable_file(path) ==
    IF \E i \in 1 .. Len(path) : path[i] \in excluded_paths THEN FALSE
    ELSE LET ext == lower(path_suffix(path[Len(path)]))
         IN IF ext = "" THEN FALSE ELSE ext \in RELEVANT_EXTENSIONS

(***************************************************************************)
(* 4.2  _analyze_contribution_files.  files is the walk of the checkout    *)
(* (rglob), each file [path, blame].                                       *)
(***************************************************************************)
\* a variant that wants more than min_contribution percent
keeps_file_above(f) ==
    /\ _is_analyzable_file(f.path)
    /\ LET stats == _get_file_author_stats(f.blame)
       IN /\ username \in DOMAIN stats
          /\ RLt(RInt(min_contribution), stats[username])

keeps_file(f) ==
    /\ _is_analyzable_file(f.path)
    /\ LET stats == _get_file_author_stats(f.blame)
       IN /\ username \in DOMAIN stats
          /\ RLe(RInt(min_contribution), stats[username])

_analyze_contribution_files(files) ==
    LET kept == SelectSeq(files, keeps_file)
    IN [i \in 1 .. Len(kept) |->
           [path |-> kept[i].path,
            contribution_percentage |-> _get_file_author_stats(kept[i].blame)[username]]]

(***************************************************************************)
(* 4.3  _get_repository_stats.  log is what `git log --format=%at`         *)
(* answers, [returncode, stdout], stdout the timestamps; repo_commits is   *)
(* the report's feed for the repository, each commit [ok, ts]: whether its *)
(* date parses as ISO-8601, and the timestamp it parses to.                *)
(***************************************************************************)
days_between(first, last) == (last - first) \div TicksPerDay

\* datetime.fromtimestamp(ts): the naive wall-clock time of the local zone.
\* Before the zone sets its clock back the wall clock is ahead by tz.back.
fromtimestamp(ts) == IF ts < tz.at THEN ts + tz.back ELSE ts

\* A zone that keeps its clock, and one that sets it back at tick MaxTick
\* (the end of daylight saving time) by more than the distance of two
\* timestamps: the ticks are coarse, and what the set-back does to two
\* commits within the repeated hour it does here to two neighbouring ticks.
Zones == {[at |-> 0, back |-> 0], [at |-> MaxTick, back |-> 2]}

\* min(timestamps), max(timestamps)
min_of(timestamps) == CHOOSE t \in timestamps : \A o \in timestamps : t <= o
max_of(timestamps) == CHOOSE t \in timestamps : \A o \in timestamps : t >= o

_get_repository_stats(log, repo_commits) ==
    IF log.returncode # 0 THEN EmptyDict
    ELSE IF \E i \in 1 .. Len(repo_commits) : ~repo_commits[i].ok THEN EmptyDict
    ELSE LET timestamps == log.stdout \o [i \in 1 .. Len(repo_commits) |-> repo_commits[i].ts]
         IN IF timestamps = <<>> THEN EmptyDict
            ELSE LET first_commit == fromtimestamp(min_of(Range(timestamps)))
                     last_commit == fromtimestamp(max_of(Range(timestamps)))
                     commit_count == Len(timestamps)
                     time_period == days_between(first_commit, last_commit) + 1
                 IN [first_commit |-> first_commit,
                     last_commit |-> last_commit,
                     commit_count |-> commit_count,
                     commits_per_day |-> Rat(commit_count, Max(time_period, 1)),
                     active_days |-> time_period]

(***************************************************************************)
(* 4.4  Scoring and selection.                                             *)
(***************************************************************************)
\* a variant that loses a point per day without a commit
recency_score_per_day(stats) ==
    LET days_since_last_commit == days_between(stats.last_commit, now)
    IN RMax(RInt(0), RSub(RInt(recency_max), RInt(days_since_last_commit)))

recency_score(stats) ==
    LET days_since_last_commit == days_between(stats.last_commit, now)
    IN RMax(RInt(0), RSub(RInt(recency_max),
                          Rat(days_since_last_commit, recency_days_per_point)))

\* a variant whose activity term falls as commits_per_day grows
commit_score_falling(stats) ==
    RMin(RInt(activity_max),
         RSub(RInt(stats.commit_count * 2), RMul(stats.commits_per_day, RInt(10))))

commit_score(stats) ==
    RMin(RInt(activity_max),
         RAdd(RInt(stats.commit_count * 2), RMul(stats.commits_per_day, RInt(10))))

\* a variant that always takes the fallback of the repositories without files
contribution_score_fallback_only(stats, contribution_files) ==
    RMin(RInt(fallback_max), Rat(stats.commit_count, 2))

contribution_score(stats, contribution_files) ==
    IF contribution_files # <<>>
    THEN LET file_count == Len(contribution_files)
             avg_contribution ==
                 RDivInt(RSum([i \in 1 .. file_count |->
                                  contribution_files[i].contribution_percentage]),
                         file_count)
         IN RMin(RInt(contribution_max),
                 RAdd(RInt(file_count * 2), RDivInt(avg_contribution, 5)))
    ELSE RMin(RInt(fallback_max), Rat(stats.commit_count, 2))

analysis_score(repo) ==
    RAdd(RAdd(recency_score(repo.stats), commit_score(repo.stats)),
         contribution_score(repo.stats, repo.contribution_files))

with_score(repo) ==
    [name |-> repo.name, stats |-> repo.stats,
     contribution_files |-> repo.contribution_files,
     analysis_score |-> analysis_score(repo)]

\* a variant of the sort that puts an entry before the entries of equal score
RECURSIVE insert_by_score_unstable(_, _)
insert_by_score_unstable(s, e) ==
    IF s = <<>> THEN <<e>>
    ELSE IF RLt(e.analysis_score, s[1].analysis_score)
    THEN <<s[1]>> \o insert_by_score_unstable(Tail(s), e)
    ELSE <<e>> \o s

\* list.sort(key=lambda x: x["analysis_score"], reverse=True): descending, and
\* entries of equal score keep the order they had
RECURSIVE insert_by_score(_, _)
insert_by_score(s, e) ==
    IF s = <<>> THEN <<e>>
    ELSE IF RLe(e.analysis_score, s[1].analysis_score)
    THEN <<s[1]>> \o insert_by_score(Tail(s), e)
    ELSE <<e>> \o s

RECURSIVE sort_by_score(_)
sort_by_score(s) ==
    IF s = <<>> THEN <<>>
    ELSE insert_by_score(sort_by_score(SubSeq(s, 1, Len(s) - 1)), s[Len(s)])

\* the list object after the scoring loop and the sort
sorted_by_score(repos) ==
    sort_by_score([i \in 1 .. Len(repos) |-> with_score(repos[i])])

_select_best_repositories(repos, maxrepos) ==
    IF repos = <<>> THEN <<>>
    ELSE Take(sorted_by_score(repos), maxrepos)

(***************************************************************************)
(* The report: contributors is a list of [repo, contributors], commits a   *)
(* mapping from repository name to its feed.                               *)
(***************************************************************************)
feed_of(rd, repo_name) ==
    IF repo_name \in DOMAIN rd.commits THEN rd.commits[repo_name] ELSE <<>>

\* set(contributed_repos + commit_repos)
all_repos_of(rd) ==
    {rd.contributors[i].repo : i \in {j \in 1 .. Len(rd.contributors) :
                                         username \in Range(rd.contributors[j].contributors)}}
    \cup DOMAIN rd.commits

\* a variant that gives up the whole batch at the first repository without stats
_analyze_repositories_aborting(rd, all_repos) ==
    LET loop[i \in 0 .. Len(all_repos)] ==
            IF i = 0 THEN <<>>
            ELSE LET repo_name == all_repos[i]
                     co == checkout[repo_name]
                     repo_stats == _get_repository_stats(co.log, feed_of(rd, repo_name))
                 IN IF ~co.exists THEN loop[i - 1]
                    ELSE IF repo_stats = EmptyDict THEN <<>>
                    ELSE Append(loop[i - 1],
                                [name |-> repo_name, stats |-> repo_stats,
                                 contribution_files |->
                                     _analyze_contribution_files(co.files)])
    IN loop[Len(all_repos)]

\* _analyze_repositories; all_repos is list(set(...)), in the order the set iterates
_analyze_repositories(rd, all_repos) ==
    LET loop[i \in 0 .. Len(all_repos)] ==
            IF i = 0 THEN <<>>
            ELSE LET repo_name == all_repos[i]
                     co == checkout[repo_name]
                     repo_stats == _get_repository_stats(co.log, feed_of(rd, repo_name))
                     contribution_files == _analyze_contribution_files(co.files)
                 IN IF ~co.exists THEN loop[i - 1]
                    ELSE IF repo_stats = EmptyDict THEN loop[i - 1]
                    ELSE IF repo_stats.commit_count > 0 \/ contribution_files # <<>>
                    THEN Append(loop[i - 1],
                                [name |-> repo_name, stats |-> repo_stats,
                                 contribution_files |-> contribution_files])
                    ELSE loop[i - 1]
    IN loop[Len(all_repos)]

\* obj["contributors"][0] raises IndexError on an empty contributor list
owner_test_raises(rd) ==
    \E i \in 1 .. Len(rd.contributors) : rd.contributors[i].contributors = <<>>

is_only_owner(obj) == obj.contributors[1] = username /\ Len(obj.contributors) = 1

\* a variant that keeps only the single-contributor repositories with a checkout
_get_only_owner_sources_checked_out(rd) ==
    LET kept == SelectSeq(rd.contributors,
                          LAMBDA obj : is_only_owner(obj) /\ checkout[obj.repo].exists)
    IN [i \in 1 .. Len(kept) |-> kept[i].repo]

\* RepositorySelector._get_only_owner_sources (when it does not raise)
_get_only_owner_sources(rd) ==
    LET kept == SelectSeq(rd.contributors, is_only_owner)
    IN [i \in 1 .. Len(kept) |-> kept[i].repo]

\* StyleAnalyzer._get_sources_to_analyze (when it does not raise)
_get_sources_to_analyze(rd) ==
    LET kept == SelectSeq(rd.contributors,
                          LAMBDA obj : obj.contributors[1] = username
                                       /\ Len(obj.contributors) = 1)
    IN [i \in 1 .. Len(kept) |-> kept[i].repo]

\* repo_metadata as select_repositories leaves it
metadata_of(rd, selected_repos, single_contributor_repos) ==
    LET top == {selected_repos[i].name : i \in 1 .. Len(selected_repos)}
        lazy == {r \in Range(single_contributor_repos) : r \notin top /\ checkout[r].exists}
        entry(name) == CHOOSE e \in Range(selected_repos) : e.name = name
    IN [name \in top \cup lazy |->
           IF name \in top
           THEN [contribution_files |-> entry(name).contribution_files,
                 stats |-> entry(name).stats]
           ELSE [contribution_files |-> _analyze_contribution_files(checkout[name].files),
                 stats |-> _get_repository_stats(checkout[name].log, feed_of(rd, name))]]

(***************************************************************************)
(* StyleAnalyzer.__init__ with selector = "repo_selector":                 *)
(* RepositorySelector.select_repositories(report_data).                    *)
(***************************************************************************)
select_repositories ==
    /\ pc = "start"
    /\ \E all_repos \in Perms(all_repos_of(report_data)) :
         LET analysed == _analyze_repositories(report_data, all_repos)
             selected_repos == _select_best_repositories(analysed, default_max_repos)
             selected_repo_names == {selected_repos[i].name : i \in 1 .. Len(selected_repos)}
         IN /\ given' = analysed
            /\ repositories' = sorted_by_score(analysed)
            /\ selected' = selected_repos
            /\ IF owner_test_raises(report_data)
               THEN /\ pc' = "select_raised"
                    /\ UNCHANGED <<repo_metadata, sources_to_analyze>>
               ELSE LET single_contributor_repos == _get_only_owner_sources(report_data)
                        all_repo_names == selected_repo_names
                                          \cup Range(single_contributor_repos)
                    IN /\ pc' = "selected"
                       /\ repo_metadata' = metadata_of(report_data, selected_repos,
                                                       single_contributor_repos)
                       /\ \E result \in Perms(all_repo_names) :
                              sources_to_analyze' = result
    /\ UNCHANGED <<now, report_data, checkout, max_repos, blame, author_stats,
                   sources_data, target_repos, git, commit_contents>>
    /\ UNCHANGED walk_vars
    /\ UNCHANGED stats_vars
    /\ UNCHANGED clean_vars
    /\ UNCHANGED activity_vars
    /\ UNCHANGED analyze_vars
    /\ UNCHANGED pipeline_vars
    /\ UNCHANGED reselect_vars
    /\ UNCHANGED asked_vars
    /\ UNCHANGED clock_vars

(***************************************************************************)
(* StyleAnalyzer.__init__ with selector = "default".                       *)
(***************************************************************************)
default_selection ==
    /\ pc = "start"
    /\ IF owner_test_raises(report_data)
       THEN /\ pc' = "default_raised"
            /\ UNCHANGED sources_to_analyze
       ELSE /\ pc' = "default_selected"
            /\ sources_to_analyze' = _get_sources_to_analyze(report_data)
    /\ UNCHANGED <<now, report_data, checkout, given, max_repos, repositories,
                   selected, repo_metadata, blame, author_stats,
                   sources_data, target_repos, git, commit_contents>>
    /\ UNCHANGED walk_vars
    /\ UNCHANGED stats_vars
    /\ UNCHANGED clean_vars
    /\ UNCHANGED activity_vars
    /\ UNCHANGED analyze_vars
    /\ UNCHANGED pipeline_vars
    /\ UNCHANGED reselect_vars
    /\ UNCHANGED asked_vars
    /\ UNCHANGED clock_vars

(***************************************************************************)
(* The inputs of a selection run.                                          *)
(***************************************************************************)
RepoSeq == <<"a", "b">>

ContributorEntries ==
    {[present |-> FALSE, contributors |-> <<>>]}
    \cup {[present |-> TRUE, contributors |-> c] :
             c \in {<<>>, <<"u">>, <<"u", "v">>, <<"v">>}}

FeedEntries ==
    {[present |-> FALSE, feed |-> <<>>]}
    \cup {[present |-> TRUE, feed |-> <<[ok |-> FALSE, ts |-> 0]>>]}
    \cup {[present |-> TRUE, feed |-> <<[ok |-> TRUE, ts |-> t]>>] : t \in Ticks}

\* the report whose entries for the repositories are c and f
report_from(c, f) ==
    LET present == SelectSeq(RepoSeq, LAMBDA r : c[r].present)
    IN [contributors |-> [i \in 1 .. Len(present) |->
                             [repo |-> present[i],
                              contributors |-> c[present[i]].contributors]],
        commits |-> [r \in {q \in Repos : f[q].present} |-> f[r].feed]]

Reports(repos) == {report_from(c, f) : c \in [repos -> ContributorEntries],
                                       f \in [repos -> FeedEntries]}

OwnBlame ==
    [raised |-> FALSE, returncode |-> 0,
     stdout |-> <<[prefix |-> "author ", rest |-> "u"]>>]

LogAnswers ==
    {[returncode |-> 128, stdout |-> <<>>], [returncode |-> 0, stdout |-> <<>>]}
    \cup {[returncode |-> 0, stdout |-> <<t>>] : t \in Ticks}

FileWalks == {<<>>, <<[path |-> <<"src", "main.py">>, blame |-> OwnBlame]>>}

Checkouts ==
    {[exists |-> FALSE, log |-> [returncode |-> 128, stdout |-> <<>>], files |-> <<>>]}
    \cup {[exists |-> TRUE, log |-> l, files |-> w] : l \in LogAnswers, w \in FileWalks}

NoReport == [contributors |-> <<>>, commits |-> EmptyDict]
NoBlame == [raised |-> FALSE, returncode |-> 0, stdout |-> <<>>]

InitSelection ==
    /\ pc = "start"
    /\ now = MaxTick
    /\ report_data \in Reports(Repos)
    /\ checkout \in [Repos -> Checkouts]
    /\ given = <<>>
    /\ max_repos = default_max_repos
    /\ repositories = <<>>
    /\ selected = <<>>
    /\ repo_metadata = EmptyDict
    /\ sources_to_analyze = <<>>
    /\ blame = NoBlame
    /\ author_stats = EmptyDict
    /\ sources_data = <<>>
    /\ target_repos = <<>>
    /\ git = EmptyDict
    /\ commit_contents = EmptyDict
    /\ WalkIdle
    /\ StatsIdle
    /\ CleanIdle
    /\ ActivityIdle
    /\ AnalyzeIdle
    /\ PipelineIdle
    /\ ReselectIdle
    /\ AskedIdle
    /\ tz \in Zones

NextSelection == select_repositories \/ default_selection

SpecSelection == InitSelection /\ [][NextSelection]_vars

(***************************************************************************)
(* _select_best_repositories on its own: any list of repositories with     *)
(* distinct names, any max_repos.                                          *)
(***************************************************************************)
NameSeq == <<"n1", "n2", "n3", "n4", "n5">>
DaysAgo == {0, 60, 1080}

BestStats ==
    {[last_commit |-> MaxTick - d * TicksPerDay, commit_count |-> 3, commits_per_day |-> c] :
        d \in DaysAgo, c \in {Rat(1, 2), RInt(3)}}

BestFiles ==
    {<<>>, <<[path |-> <<"src", "main.py">>, contribution_percentage |-> RInt(100)]>>}

BestLists(longest) ==
    UNION {{[i \in 1 .. n |-> [name |-> NameSeq[i], stats |-> st[i],
                               contribution_files |-> fl[i]]] :
               st \in [1 .. n -> BestStats], fl \in [1 .. n -> BestFiles]} :
           n \in 0 .. longest}

InitBest ==
    /\ pc = "best"
    /\ now = MaxTick
    /\ report_data = NoReport
    /\ checkout = EmptyDict
    /\ given \in BestLists(MaxList)
    /\ max_repos \in 0 .. MaxCut
    /\ repositories = given
    /\ selected = <<>>
    /\ repo_metadata = EmptyDict
    /\ sources_to_analyze = <<>>
    /\ blame = NoBlame
    /\ author_stats = EmptyDict
    /\ sources_data = <<>>
    /\ target_repos = <<>>
    /\ git = EmptyDict
    /\ commit_contents = EmptyDict
    /\ WalkIdle
    /\ StatsIdle
    /\ CleanIdle
    /\ ActivityIdle
    /\ AnalyzeIdle
    /\ PipelineIdle
    /\ ReselectIdle
    /\ AskedIdle
    /\ ClockIdle

select_best_repositories ==
    /\ pc = "best"
    /\ pc' = "best_done"
    /\ selected' = _select_best_repositories(given, max_repos)
    /\ repositories' = IF given = <<>> THEN given ELSE sorted_by_score(given)
    /\ UNCHANGED <<now, report_data, checkout, given, max_repos, repo_metadata,
                   sources_to_analyze, blame, author_stats,
                   sources_data, target_repos, git, commit_contents>>
    /\ UNCHANGED walk_vars
    /\ UNCHANGED stats_vars
    /\ UNCHANGED clean_vars
    /\ UNCHANGED activity_vars
    /\ UNCHANGED analyze_vars
    /\ UNCHANGED pipeline_vars
    /\ UNCHANGED reselect_vars
    /\ UNCHANGED asked_vars
    /\ UNCHANGED clock_vars

SpecBest == InitBest /\ [][select_best_repositories]_vars

\* One walk of a checkout by _analyze_contribution_files: up to MaxWalk files,
\* each a path and a blame answer with own lines of the user and other lines
\* of another author.
WalkPaths ==
    {<<"src", "main.py">>, <<"src", "Main.PY">>, <<"node_modules", "main.py">>,
     <<"logo.png">>, <<"README">>}

blame_of(own, other) ==
    [raised |-> FALSE, returncode |-> 0,
     stdout |-> [i \in 1 .. (own + other) |->
                    [prefix |-> "author ", rest |-> IF i <= own THEN "u" ELSE "v"]]]

WalkBlames ==
    {[raised |-> TRUE, returncode |-> 0, stdout |-> <<>>],
     [raised |-> FALSE, returncode |-> 128, stdout |-> <<>>],
     blame_of(0, 2), blame_of(1, 5), blame_of(1, 4), blame_of(1, 0)}

WalkFiles == {[path |-> p, blame |-> b] : p \in WalkPaths, b \in WalkBlames}

InitFiles ==
    /\ pc = "files"
    /\ now = MaxTick
    /\ report_data = NoReport
    /\ checkout = EmptyDict
    /\ given = <<>>
    /\ max_repos = default_max_repos
    /\ repositories = <<>>
    /\ selected = <<>>
    /\ repo_metadata = EmptyDict
    /\ sources_to_analyze = <<>>
    /\ blame = NoBlame
    /\ author_stats = EmptyDict
    /\ sources_data = <<>>
    /\ target_repos = <<>>
    /\ git = EmptyDict
    /\ commit_contents = EmptyDict
    /\ repo_files \in SeqsUpTo(WalkFiles, MaxWalk)
    /\ kept_files = <<>>
    /\ StatsIdle
    /\ CleanIdle
    /\ ActivityIdle
    /\ AnalyzeIdle
    /\ PipelineIdle
    /\ ReselectIdle
    /\ AskedIdle
    /\ ClockIdle

analyze_contribution_files ==
    /\ pc = "files"
    /\ pc' = "files_done"
    /\ kept_files' = _analyze_contribution_files(repo_files)
    /\ UNCHANGED <<now, report_data, checkout, given, max_repos, repositories,
                   selected, repo_metadata, sources_to_analyze, blame, author_stats,
                   sources_data, target_repos, git, commit_contents, repo_files>>
    /\ UNCHANGED stats_vars
    /\ UNCHANGED clean_vars
    /\ UNCHANGED activity_vars
    /\ UNCHANGED analyze_vars
    /\ UNCHANGED pipeline_vars
    /\ UNCHANGED reselect_vars
    /\ UNCHANGED asked_vars
    /\ UNCHANGED clock_vars

SpecFiles == InitFiles /\ [][analyze_contribution_files]_vars

\* One call of _get_repository_stats: a git log answer of up to MaxLog
\* timestamps and a feed of up to MaxLog commits, over timestamps within a
\* day and days apart.
StatStamps == {0, 1, TicksPerDay, 2 * TicksPerDay + 1}

StatLogs ==
    {[returncode |-> 128, stdout |-> <<>>]}
    \cup {[returncode |-> 0, stdout |-> t] : t \in SeqsUpTo(StatStamps, MaxLog)}

StatFeeds ==
    SeqsUpTo({[ok |-> FALSE, ts |-> 0]} \cup {[ok |-> TRUE, ts |-> t] : t \in StatStamps},
             MaxLog)

InitStats ==
    /\ pc = "stats"
    /\ now = MaxTick
    /\ report_data = NoReport
    /\ checkout = EmptyDict
    /\ given = <<>>
    /\ max_repos = default_max_repos
    /\ repositories = <<>>
    /\ selected = <<>>
    /\ repo_metadata = EmptyDict
    /\ sources_to_analyze = <<>>
    /\ blame = NoBlame
    /\ author_stats = EmptyDict
    /\ sources_data = <<>>
    /\ target_repos = <<>>
    /\ git = EmptyDict
    /\ commit_contents = EmptyDict
    /\ WalkIdle
    /\ log_answer \in StatLogs
    /\ commit_feed \in StatFeeds
    /\ stats_returned = EmptyDict
    /\ CleanIdle
    /\ ActivityIdle
    /\ AnalyzeIdle
    /\ PipelineIdle
    /\ ReselectIdle
    /\ AskedIdle
    /\ tz \in Zones

get_repository_stats ==
    /\ pc = "stats"
    /\ pc' = "stats_done"
    /\ stats_returned' = _get_repository_stats(log_answer, commit_feed)
    /\ UNCHANGED <<now, report_data, checkout, given, max_repos, repositories,
                   selected, repo_metadata, sources_to_analyze, blame, author_stats,
                   sources_data, target_repos, git, commit_contents, walk_vars,
                   log_answer, commit_feed>>
    /\ UNCHANGED clean_vars
    /\ UNCHANGED activity_vars
    /\ UNCHANGED analyze_vars
    /\ UNCHANGED pipeline_vars
    /\ UNCHANGED reselect_vars
    /\ UNCHANGED asked_vars
    /\ UNCHANGED clock_vars

SpecStats == InitStats /\ [][get_repository_stats]_vars

\* Scoring one repository: a list of one repository, over the days since its
\* last commit, its commit count, its rate and its contribution files.  The
\* dates are the authors' (git log --format=%at, the report's author date): a
\* last commit may be dated after datetime.now(), -1 days since.
ScoreDays == {-1, 0, 29, 30, 730, 1049, 1050, 1080}
ScoreCounts == {1, 3, 50}
ScoreRates == {Rat(1, 100), Rat(1, 2), RInt(5)}

files_of(percentages) ==
    [i \in 1 .. Len(percentages) |->
        [path |-> <<"src", "main.py">>, contribution_percentage |-> RInt(percentages[i])]]

ScoreFiles ==
    {files_of(<<>>), files_of(<<20>>), files_of(<<40, 60, 80>>),
     files_of(<<100, 100, 100, 100, 100, 100>>)}

InitScore ==
    /\ pc = "best"
    /\ now = MaxTick
    /\ report_data = NoReport
    /\ checkout = EmptyDict
    /\ \E d \in ScoreDays, n \in ScoreCounts, c \in ScoreRates, fl \in ScoreFiles :
          given = <<[name |-> NameSeq[1],
                     stats |-> [last_commit |-> MaxTick - d * TicksPerDay,
                                commit_count |-> n, commits_per_day |-> c],
                     contribution_files |-> fl]>>
    /\ max_repos = default_max_repos
    /\ repositories = given
    /\ selected = <<>>
    /\ repo_metadata = EmptyDict
    /\ sources_to_analyze = <<>>
    /\ blame = NoBlame
    /\ author_stats = EmptyDict
    /\ sources_data = <<>>
    /\ target_repos = <<>>
    /\ git = EmptyDict
    /\ commit_contents = EmptyDict
    /\ WalkIdle
    /\ StatsIdle
    /\ CleanIdle
    /\ ActivityIdle
    /\ AnalyzeIdle
    /\ PipelineIdle
    /\ ReselectIdle
    /\ AskedIdle
    /\ ClockIdle

SpecScore == InitScore /\ [][select_best_repositories]_vars

(***************************************************************************)
(* _get_file_author_stats on its own: any blame answer.                    *)
(***************************************************************************)
InitBlame ==
    /\ pc = "blame"
    /\ now = MaxTick
    /\ report_data = NoReport
    /\ checkout = EmptyDict
    /\ given = <<>>
    /\ max_repos = default_max_repos
    /\ repositories = <<>>
    /\ selected = <<>>
    /\ repo_metadata = EmptyDict
    /\ sources_to_analyze = <<>>
    /\ blame \in BlameAnswers(MaxBlameLines)
    /\ author_stats = EmptyDict
    /\ sources_data = <<>>
    /\ target_repos = <<>>
    /\ git = EmptyDict
    /\ commit_contents = EmptyDict
    /\ WalkIdle
    /\ StatsIdle
    /\ CleanIdle
    /\ ActivityIdle
    /\ AnalyzeIdle
    /\ PipelineIdle
    /\ ReselectIdle
    /\ AskedIdle
    /\ ClockIdle

get_file_author_stats ==
    /\ pc = "blame"
    /\ pc' = "blamed"
    /\ author_stats' = _get_file_author_stats(blame)
    /\ UNCHANGED <<now, report_data, checkout, given, max_repos, repositories,
                   selected, repo_metadata, sources_to_analyze, blame,
                   sources_data, target_repos, git, commit_contents>>
    /\ UNCHANGED walk_vars
    /\ UNCHANGED stats_vars
    /\ UNCHANGED clean_vars
    /\ UNCHANGED activity_vars
    /\ UNCHANGED analyze_vars
    /\ UNCHANGED pipeline_vars
    /\ UNCHANGED reselect_vars
    /\ UNCHANGED asked_vars
    /\ UNCHANGED clock_vars

SpecBlame == InitBlame /\ [][get_file_author_stats]_vars

(***************************************************************************)
(* 4.5  The commit sampler.  A text line is the sequence of its            *)
(* characters; a diff is the sequence of its lines.                        *)
(***************************************************************************)
max_diff_lines == 100
temporal_min_commits == 5      \* report commits a temporal target needs
temporal_min_files == 10       \* files a temporal target needs

starts_with(line, prefix) ==
    Len(line) >= Len(prefix) /\ SubSeq(line, 1, Len(prefix)) = prefix

contains(line, sub) ==
    \E i \in 1 .. (Len(line) - Len(sub) + 1) : SubSeq(line, i, i + Len(sub) - 1) = sub

\* line.split("/")[-1]
after_last_slash(line) ==
    LET slashes == {i \in 1 .. Len(line) : line[i] = "/"}
    IN IF slashes = {} THEN line
       ELSE SubSeq(line, (CHOOSE i \in slashes : \A j \in slashes : j <= i) + 1, Len(line))

p_diff_git == <<"d", "i", "f", "f", " ", "-", "-", "g", "i", "t">>
p_index == <<"i", "n", "d", "e", "x", " ">>
p_new_file_mode == <<"n", "e", "w", " ", "f", "i", "l", "e", " ", "m", "o", "d", "e", " ">>
p_deleted_file_mode ==
    <<"d", "e", "l", "e", "t", "e", "d", " ", "f", "i", "l", "e", " ", "m", "o", "d", "e", " ">>
p_old_file == <<"-", "-", "-", " ">>
p_new_file == <<"+", "+", "+", " ">>
p_hunk == <<"@", "@", " ">>
dev_null == <<"/", "d", "e", "v", "/", "n", "u", "l", "l">>

\* what one line of the diff adds to cleaned_lines
clean_line(line) ==
    IF \/ starts_with(line, p_diff_git)
       \/ starts_with(line, p_index)
       \/ starts_with(line, p_new_file_mode)
       \/ starts_with(line, p_deleted_file_mode)
    THEN <<>>
    ELSE IF starts_with(line, p_old_file) \/ starts_with(line, p_new_file)
    THEN IF contains(line, dev_null) THEN <<>> ELSE <<after_last_slash(line)>>
    ELSE IF \/ starts_with(line, p_hunk)
            \/ starts_with(line, <<"+">>)
            \/ starts_with(line, <<"-">>)
            \/ starts_with(line, <<" ">>)
    THEN <<line>>
    ELSE <<>>

\* _clean_diff: the lines of the text it returns; diff_output is the lines of
\* the raw diff, and split("\n") yields them and the empty string after the
\* last newline
RECURSIVE clean_lines(_)
clean_lines(lines) ==
    IF lines = <<>> THEN <<>>
    ELSE clean_line(lines[1]) \o clean_lines(Tail(lines))

_clean_diff(diff_output) == clean_lines(diff_output \o <<<<>>>>)

\* not clean_diff.strip()
is_blank(text) ==
    \A i \in 1 .. Len(text) : \A j \in 1 .. Len(text[i]) : text[i][j] \in {" ", "\t"}

\* a variant that takes a middle commit from every history of more than two
commits_to_process_with_early_middle(commit_history) ==
    (IF Len(commit_history) > 0 THEN <<commit_history[1]>> ELSE <<>>)
    \o (IF Len(commit_history) > 2
        THEN <<commit_history[Len(commit_history) \div 2 + 1]>> ELSE <<>>)
    \o (IF Len(commit_history) > 1 THEN <<commit_history[Len(commit_history)]>> ELSE <<>>)

\* commits_to_process of a file history (oldest first)
commits_to_process_of(commit_history) ==
    (IF Len(commit_history) > 0 THEN <<commit_history[1]>> ELSE <<>>)
    \o (IF Len(commit_history) > 4
        THEN <<commit_history[Len(commit_history) \div 2 + 1]>> ELSE <<>>)
    \o (IF Len(commit_history) > 1 THEN <<commit_history[Len(commit_history)]>> ELSE <<>>)

\* a variant that takes diffs of one line more than max_diff_lines
diff_too_large_off_by_one(diff_lines) == Len(diff_lines) > max_diff_lines + 1

\* len(diff_lines) > max_diff_lines
diff_too_large(diff_lines) == Len(diff_lines) > max_diff_lines

None == <<>>
Some(x) == <<x>>

\* One pass of the loop over commits_to_process.  st is [prev_content,
\* commits, escaped]: escaped says that an exception other than
\* CalledProcessError left the loop.  A git answer is [kind, ...] with kind
\* "ok", "cpe" (CalledProcessError) or "exc" (any other exception).
process_commit(st, file_path, commit_info, is_last) ==
    IF st.escaped THEN st
    ELSE IF commit_info.show.kind = "cpe" THEN st
    ELSE IF commit_info.show.kind = "exc" THEN [st EXCEPT !.escaped = TRUE]
    ELSE IF diff_too_large(commit_info.show.diff) THEN st
    ELSE IF is_blank(_clean_diff(commit_info.show.diff)) THEN st
    ELSE LET fetch == st.prev_content = None \/ is_last
             commit_data == [sha |-> commit_info.sha, date |-> commit_info.date,
                             file |-> file_path,
                             changes |-> _clean_diff(commit_info.show.diff)]
             with_content == [sha |-> commit_info.sha, date |-> commit_info.date,
                              file |-> file_path,
                              changes |-> _clean_diff(commit_info.show.diff),
                              content |-> commit_info.content.text]
         IN IF fetch /\ commit_info.content.kind = "cpe" THEN st
            ELSE IF fetch /\ commit_info.content.kind = "exc"
            THEN [st EXCEPT !.escaped = TRUE]
            ELSE [prev_content |-> IF st.prev_content = None
                                   THEN Some(commit_info.content.text)
                                   ELSE st.prev_content,
                  commits |-> Append(st.commits,
                                     IF fetch /\ commit_info.content.text # ""
                                     THEN with_content ELSE commit_data),
                  escaped |-> FALSE]

\* the loop body for one core file: [commits, escaped]
sample_file(file_path, answer) ==
    IF answer.log.kind = "cpe" THEN [commits |-> <<>>, escaped |-> FALSE]
    ELSE IF answer.log.kind = "exc" THEN [commits |-> <<>>, escaped |-> TRUE]
    ELSE LET todo == commits_to_process_of(answer.log.history)
             loop[i \in 0 .. Len(todo)] ==
                 IF i = 0 THEN [prev_content |-> None, commits |-> <<>>, escaped |-> FALSE]
                 ELSE process_commit(loop[i - 1], file_path, todo[i],
                                     todo[i] = todo[Len(todo)])
         IN [commits |-> loop[Len(todo)].commits, escaped |-> loop[Len(todo)].escaped]

\* commits.sort(key=lambda x: x["date"]): ascending, equal dates keep their order
RECURSIVE insert_by_date(_, _)
insert_by_date(s, e) ==
    IF s = <<>> THEN <<e>>
    ELSE IF s[1].date <= e.date THEN <<s[1]>> \o insert_by_date(Tail(s), e)
    ELSE <<e>> \o s

RECURSIVE sort_by_date(_)
sort_by_date(s) ==
    IF s = <<>> THEN <<>>
    ELSE insert_by_date(sort_by_date(SubSeq(s, 1, Len(s) - 1)), s[Len(s)])

\* files_commits: the sorted commits regrouped by file
group_by_file(commits) ==
    [f \in {commits[i].file : i \in 1 .. Len(commits)} |->
        SelectSeq(commits, LAMBDA c : c.file = f)]

\* the commits of one repository, file after file: [commits, escaped]
sample_repository(core_files, answers) ==
    LET loop[i \in 0 .. Len(core_files)] ==
            IF i = 0 THEN [commits |-> <<>>, escaped |-> FALSE]
            ELSE IF loop[i - 1].escaped THEN loop[i - 1]
            ELSE LET r == sample_file(core_files[i], answers[core_files[i]])
                 IN [commits |-> loop[i - 1].commits \o r.commits, escaped |-> r.escaped]
    IN loop[Len(core_files)]

sources_entry(sd, repo_name) == CHOOSE e \in Range(sd) : e.repo = repo_name

\* name.split('_')[0]: the text before the first underscore
RECURSIVE before_first_underscore(_)
before_first_underscore(name) ==
    IF name = <<>> \/ name[1] = "_" THEN <<>>
    ELSE <<name[1]>> \o before_first_underscore(Tail(name))

\* the username after the loop over sources_data.values(): taken from the
\* first repository that has a structure name, None when there is none
extracted_username(sd) ==
    LET named == {i \in 1 .. Len(sd) : sd[i].structure_name # <<>>}
    IN IF named = {} THEN None
       ELSE before_first_underscore(
                sd[CHOOSE i \in named : \A j \in named : i <= j].structure_name)

\* a variant that goes on to the next repository when the text before the
\* underscore is empty
username_undetermined_skipping(sd) ==
    \A i \in 1 .. Len(sd) : before_first_underscore(sd[i].structure_name) = <<>>

\* not username
username_undetermined(sd) == extracted_username(sd) \in {None, <<>>}

\* the entry _get_commit_contents stores for a sampled repository
contents_entry(core_files, commits) ==
    [core_files |-> core_files,
     evolution |-> [commit_count |-> Len(commits),
                    commits_by_file |-> group_by_file(sort_by_date(commits))]]

\* the repositories that get an entry in commit_contents
sampled_repos(targets, sd) ==
    {r \in Range(targets) :
        LET e == sources_entry(sd, r)
            res == sample_repository(e.core_files, git[r])
        IN /\ e.structure_name # <<>>
           /\ e.core_files # <<>>
           /\ ~res.escaped
           /\ res.commits # <<>>}

\* _get_commit_contents (when the username was determined)
_get_commit_contents(targets, sd) ==
    [r \in sampled_repos(targets, sd) |->
        contents_entry(sources_entry(sd, r).core_files,
                       sample_repository(sources_entry(sd, r).core_files, git[r]).commits)]

get_commit_contents ==
    /\ pc = "sample"
    /\ IF username_undetermined(sources_data)
       THEN /\ pc' = "sample_raised"
            /\ UNCHANGED commit_contents
       ELSE /\ pc' = "sampled"
            /\ commit_contents' = _get_commit_contents(target_repos, sources_data)
    /\ UNCHANGED <<now, report_data, checkout, given, max_repos, repositories,
                   selected, repo_metadata, sources_to_analyze, blame, author_stats,
                   sources_data, target_repos, git>>
    /\ UNCHANGED walk_vars
    /\ UNCHANGED stats_vars
    /\ UNCHANGED clean_vars
    /\ UNCHANGED activity_vars
    /\ UNCHANGED analyze_vars
    /\ UNCHANGED pipeline_vars
    /\ UNCHANGED reselect_vars
    /\ UNCHANGED asked_vars
    /\ UNCHANGED clock_vars

(***************************************************************************)
(* The inputs of a sampling run.                                           *)
(***************************************************************************)
\* structure names (the name of the checkout directory, username_repo.git),
\* as sequences of characters
name_u_a == <<"u", "_", "a", ".", "g", "i", "t">>
name_u_b == <<"u", "_", "b", ".", "g", "i", "t">>
name_without_user == <<"_", "a", ".", "g", "i", "t">>

line_diff_git == p_diff_git \o <<" ", "a", "/", "f", " ", "b", "/", "f">>
line_index == p_index \o <<"1", ".", ".", "2">>
line_old_file == p_old_file \o <<"a", "/", "f">>
line_new_file == p_new_file \o <<"b", "/", "f">>
line_hunk == p_hunk \o <<"-", "1", " ", "+", "1", " ", "@", "@">>
line_removed == <<"-", "x">>
line_added == <<"+", "y">>
line_blank_context == <<" ">>

small_diff == <<line_diff_git, line_index, line_old_file, line_new_file,
                line_hunk, line_removed, line_added>>
header_only_diff == <<line_diff_git, line_index>>
blank_diff == <<line_blank_context, line_blank_context>>
large_diff == [i \in 1 .. (max_diff_lines + 1) |-> line_added]

DateKeys == 1 .. MaxDate

show_ok(d) == [kind |-> "ok", diff |-> d]
show_failed(k) == [kind |-> k, diff |-> <<>>]
content_ok(t) == [kind |-> "ok", text |-> t]
content_failed(k) == [kind |-> k, text |-> ""]

\* what git answers for one sampled commit: the diff, and the file content
\* (which matters only when the diff is kept)
SampleAnswers ==
    {[show |-> sh, content |-> content_ok("text")] :
        sh \in {show_failed("cpe"), show_ok(large_diff),
                show_ok(header_only_diff), show_ok(blank_diff)}}
    \cup {[show |-> show_ok(small_diff), content |-> c] :
             c \in {content_failed("cpe"), content_ok(""), content_ok("text")}}

\* the positions of a history of length n that commits_to_process reads
sampled_positions(n) ==
    {i \in 1 .. n : i = 1 \/ i = n \/ (n > 4 /\ i = n \div 2 + 1)}

\* the histories of length n: any date and any answer at the positions read
Histories(n, answers) ==
    {[i \in 1 .. n |->
         IF i \in sampled_positions(n)
         THEN [sha |-> i, date |-> d[i], show |-> a[i].show, content |-> a[i].content]
         ELSE [sha |-> i, date |-> 1, show |-> show_ok(small_diff),
               content |-> content_ok("text")]] :
        d \in [sampled_positions(n) -> DateKeys], a \in [sampled_positions(n) -> answers]}

log_ok(h) == [log |-> [kind |-> "ok", history |-> h]]
log_failed(k) == [log |-> [kind |-> k, history |-> <<>>]]

FileAnswers(longest) ==
    {log_failed("cpe")}
    \cup UNION {{log_ok(h) : h \in Histories(n, SampleAnswers)} : n \in 0 .. longest}

\* a second core file with a single commit, beside a first one with a short
\* history
SecondFileAnswers ==
    {log_ok(<<[sha |-> 1, date |-> 1, show |-> show_ok(small_diff),
               content |-> content_ok("text")]>>)}

\* One call of _clean_diff: a diff of up to MaxDiff lines, among them a
\* removed line whose text is a comment "-- a/b" and so reads "--- a/b".
line_new_file_mode == p_new_file_mode \o <<"1", "0", "0", "6", "4", "4">>
line_dev_null == p_old_file \o dev_null
line_context == <<" ", "z">>
line_removed_comment == <<"-">> \o <<"-", "-", " ", "a", "/", "b">>

CleanLines ==
    {line_diff_git, line_index, line_new_file_mode, line_old_file, line_dev_null,
     line_new_file, line_hunk, line_removed, line_added, line_context,
     line_removed_comment}

InitClean ==
    /\ pc = "clean"
    /\ now = MaxTick
    /\ report_data = NoReport
    /\ checkout = EmptyDict
    /\ given = <<>>
    /\ max_repos = default_max_repos
    /\ repositories = <<>>
    /\ selected = <<>>
    /\ repo_metadata = EmptyDict
    /\ sources_to_analyze = <<>>
    /\ blame = NoBlame
    /\ author_stats = EmptyDict
    /\ sources_data = <<>>
    /\ target_repos = <<>>
    /\ git = EmptyDict
    /\ commit_contents = EmptyDict
    /\ WalkIdle
    /\ StatsIdle
    /\ raw_diff \in SeqsUpTo(CleanLines, MaxDiff)
    /\ cleaned = <<>>
    /\ ActivityIdle
    /\ AnalyzeIdle
    /\ PipelineIdle
    /\ ReselectIdle
    /\ AskedIdle
    /\ ClockIdle

clean_diff ==
    /\ pc = "clean"
    /\ pc' = "cleaned"
    /\ cleaned' = _clean_diff(raw_diff)
    /\ UNCHANGED <<now, report_data, checkout, given, max_repos, repositories,
                   selected, repo_metadata, sources_to_analyze, blame, author_stats,
                   sources_data, target_repos, git, commit_contents, walk_vars,
                   stats_vars, raw_diff>>
    /\ UNCHANGED activity_vars
    /\ UNCHANGED analyze_vars
    /\ UNCHANGED pipeline_vars
    /\ UNCHANGED reselect_vars
    /\ UNCHANGED asked_vars
    /\ UNCHANGED clock_vars

SpecClean == InitClean /\ [][clean_diff]_vars

InitSampler ==
    /\ pc = "sample"
    /\ now = MaxTick
    /\ report_data = NoReport
    /\ checkout = EmptyDict
    /\ given = <<>>
    /\ max_repos = default_max_repos
    /\ repositories = <<>>
    /\ selected = <<>>
    /\ repo_metadata = EmptyDict
    /\ sources_to_analyze = <<>>
    /\ blame = NoBlame
    /\ author_stats = EmptyDict
    /\ target_repos = <<"a">>
    /\ \/ \E a1 \in FileAnswers(MaxHist) :
             /\ sources_data = <<[repo |-> "a", structure_name |-> name_u_a,
                                  core_files |-> <<"f1">>]>>
             /\ git = [r \in {"a"} |-> [f \in {"f1"} |-> a1]]
       \/ \E a1 \in FileAnswers(2), a2 \in SecondFileAnswers :
             /\ sources_data = <<[repo |-> "a", structure_name |-> name_u_a,
                                  core_files |-> <<"f1", "f2">>]>>
             /\ git = [r \in {"a"} |-> [f \in {"f1", "f2"} |->
                                           IF f = "f1" THEN a1 ELSE a2]]
    /\ commit_contents = EmptyDict
    /\ WalkIdle
    /\ StatsIdle
    /\ CleanIdle
    /\ ActivityIdle
    /\ AnalyzeIdle
    /\ PipelineIdle
    /\ ReselectIdle
    /\ AskedIdle
    /\ ClockIdle

SpecSampler == InitSampler /\ [][get_commit_contents]_vars

\* Sampling with faults: two repositories, the first with two core files;
\* every git invocation may also fail with an exception that is no
\* CalledProcessError (the output does not decode, the directory is missing).
FaultyAnswers ==
    {[show |-> sh, content |-> content_ok("text")] :
        sh \in {show_failed("cpe"), show_failed("exc"), show_ok(large_diff)}}
    \cup {[show |-> show_ok(small_diff), content |-> c] :
             c \in {content_failed("cpe"), content_failed("exc"), content_ok("text")}}

FaultyHistories(n) ==
    {[i \in 1 .. n |-> [sha |-> i, date |-> i, show |-> a[i].show, content |-> a[i].content]] :
        a \in [1 .. n -> FaultyAnswers]}

FaultyFileAnswers(n) ==
    {log_failed("cpe"), log_failed("exc")}
    \cup UNION {{log_ok(h) : h \in FaultyHistories(k)} : k \in 1 .. n}

InitSamplerFaults ==
    /\ pc = "sample"
    /\ now = MaxTick
    /\ report_data = NoReport
    /\ checkout = EmptyDict
    /\ given = <<>>
    /\ max_repos = default_max_repos
    /\ repositories = <<>>
    /\ selected = <<>>
    /\ repo_metadata = EmptyDict
    /\ sources_to_analyze = <<>>
    /\ blame = NoBlame
    /\ author_stats = EmptyDict
    /\ target_repos = <<"a", "b">>
    /\ \E sa \in {<<>>, name_u_a, name_without_user}, sb \in {<<>>, name_u_b} :
          sources_data = <<[repo |-> "a", structure_name |-> sa,
                            core_files |-> <<"f1", "f2">>],
                           [repo |-> "b", structure_name |-> sb,
                            core_files |-> <<"g">>]>>
    /\ \E a1 \in FaultyFileAnswers(2), a2 \in FaultyFileAnswers(1), a3 \in FaultyFileAnswers(1) :
          git = [r \in {"a", "b"} |->
                    IF r = "a" THEN [f \in {"f1", "f2"} |-> IF f = "f1" THEN a1 ELSE a2]
                    ELSE [f \in {"g"} |-> a3]]
    /\ commit_contents = EmptyDict
    /\ WalkIdle
    /\ StatsIdle
    /\ CleanIdle
    /\ ActivityIdle
    /\ AnalyzeIdle
    /\ PipelineIdle
    /\ ReselectIdle
    /\ AskedIdle
    /\ ClockIdle

SpecSamplerFaults == InitSamplerFaults /\ [][get_commit_contents]_vars

(***************************************************************************)
(* _analyze_activity_patterns.  A datetime is [day, hour, minute, aware]:  *)
(* the day counted from some first day, and whether it carries a UTC       *)
(* offset (Python refuses to compare a datetime that does with one that    *)
(* does not).                                                              *)
(***************************************************************************)
minutes_of(t) == (t.day * 24 + t.hour) * 60 + t.minute

\* (later - earlier).days and (later - earlier).total_seconds() / 3600
days_from(earlier, later) == (minutes_of(later) - minutes_of(earlier)) \div (24 * 60)
hours_from(earlier, later) == Rat(minutes_of(later) - minutes_of(earlier), 60)

\* commit_times.sort(): ascending, equal times keep their order
RECURSIVE insert_time(_, _)
insert_time(s, t) ==
    IF s = <<>> THEN <<t>>
    ELSE IF minutes_of(s[1]) <= minutes_of(t) THEN <<s[1]>> \o insert_time(Tail(s), t)
    ELSE <<t>> \o s

RECURSIVE sort_times(_)
sort_times(s) ==
    IF s = <<>> THEN <<>>
    ELSE insert_time(sort_times(SubSeq(s, 1, Len(s) - 1)), s[Len(s)])

\* the sort compares a datetime with an offset and one without: TypeError
sort_raises(times) == \E i, j \in 1 .. Len(times) : times[i].aware # times[j].aware

\* round(x, 2) of a positive rational, as <<hundredths, 100>> in lowest terms.
\* x is halfway between two hundredths only when the day span is a multiple
\* of 8; for the spans up to 8 days x is then a binary fraction, a float
\* holds it exactly and Python rounds it to the even hundredth.
round2(x) ==
    LET whole == (100 * x[1]) \div x[2]
        rest == (100 * x[1]) % x[2]
    IN IF 2 * rest < x[2] THEN Rat(whole, 100)
       ELSE IF 2 * rest > x[2] THEN Rat(whole + 1, 100)
       ELSE IF whole % 2 = 0 THEN Rat(whole, 100)
       ELSE Rat(whole + 1, 100)

\* Counter([t.hour for t in commit_times]): the hours in the order of their
\* first occurrence, and their counts
hours_seen(times) ==
    LET firsts == SelectSeq([i \in 1 .. Len(times) |-> i],
                            LAMBDA i : \A j \in 1 .. (i - 1) : times[j].hour # times[i].hour)
    IN [k \in 1 .. Len(firsts) |-> times[firsts[k]].hour]

hour_count(times, h) == Cardinality({i \in 1 .. Len(times) : times[i].hour = h})

\* hours.most_common(): by falling count, equal counts in the order of the
\* counter
RECURSIVE insert_by_count(_, _, _)
insert_by_count(s, h, times) ==
    IF s = <<>> THEN <<h>>
    ELSE IF hour_count(times, h) <= hour_count(times, s[1])
    THEN <<s[1]>> \o insert_by_count(Tail(s), h, times)
    ELSE <<h>> \o s

RECURSIVE most_common(_, _)
most_common(hs, times) ==
    IF hs = <<>> THEN <<>>
    ELSE insert_by_count(most_common(SubSeq(hs, 1, Len(hs) - 1), times), hs[Len(hs)], times)

\* f"{n:02d}": the decimal digits of n, with a leading zero below ten
decimal_digits == <<"0", "1", "2", "3", "4", "5", "6", "7", "8", "9">>

RECURSIVE digits_of(_)
digits_of(n) ==
    IF n < 10 THEN <<decimal_digits[n + 1]>>
    ELSE digits_of(n \div 10) \o <<decimal_digits[(n % 10) + 1]>>

two_digits(n) == IF n < 10 THEN <<"0">> \o digits_of(n) ELSE digits_of(n)

\* f"{h:02d}-{(h+1):02d}", as a sequence of characters
hour_band(h) == two_digits(h) \o <<"-">> \o two_digits(h + 1)

\* a variant that lists every hour above the share, not only three
active_hours_of_every_busy_hour(times) ==
    LET top == most_common(hours_seen(times), times)
        busy == SelectSeq(top, LAMBDA h : 10 * hour_count(times, h) > Len(times))
    IN [k \in 1 .. Len(busy) |-> hour_band(busy[k])]

active_hours_of(times) ==
    LET top == Take(most_common(hours_seen(times), times), 3)
        busy == SelectSeq(top, LAMBDA h : 10 * hour_count(times, h) > Len(times))
    IN [k \in 1 .. Len(busy) |-> hour_band(busy[k])]

\* max(hours.items(), key=lambda x: x[1])[0]: the first hour of the counter
\* with the largest count
peak_hour_of(times) ==
    LET hs == hours_seen(times)
        best == {k \in 1 .. Len(hs) :
                    \A m \in 1 .. Len(hs) : hour_count(times, hs[m]) <= hour_count(times, hs[k])}
    IN hs[CHOOSE k \in best : \A m \in best : k <= m]

\* a variant in which a boundary hour falls into the later band
tz_hint_of_later_band(peak_hour) ==
    IF 16 < peak_hour /\ peak_hour <= 20 THEN "UTC-12 to UTC-8"
    ELSE IF 12 < peak_hour /\ peak_hour <= 16 THEN "UTC-6 to UTC-4"
    ELSE IF 8 <= peak_hour /\ peak_hour <= 12 THEN "UTC+0 to UTC+2"
    ELSE IF 4 <= peak_hour /\ peak_hour <= 8 THEN "UTC+8 to UTC+10"
    ELSE "unclear"

tz_hint_of(peak_hour) ==
    IF 4 <= peak_hour /\ peak_hour <= 8 THEN "UTC+8 to UTC+10"
    ELSE IF 8 <= peak_hour /\ peak_hour <= 12 THEN "UTC+0 to UTC+2"
    ELSE IF 12 <= peak_hour /\ peak_hour <= 16 THEN "UTC-6 to UTC-4"
    ELSE IF 16 <= peak_hour /\ peak_hour <= 20 THEN "UTC-12 to UTC-8"
    ELSE "unclear"

\* the result for the empty list, with the timezone hint of a peak hour
\* outside every band
no_activity_unclear ==
    [frequency |-> [commits_per_day |-> RInt(0), active_hours |-> <<>>,
                    timezone_hint |-> "unclear"],
     burst_patterns |-> [intensity |-> "low", average_duration |-> "n/a",
                         frequency |-> "sporadic"]]

\* the result for the empty list
no_activity ==
    [frequency |-> [commits_per_day |-> RInt(0), active_hours |-> <<>>,
                    timezone_hint |-> "unknown"],
     burst_patterns |-> [intensity |-> "low", average_duration |-> "n/a",
                         frequency |-> "sporadic"]]

\* a variant that divides by the days the commits fall on, the span and one
commits_per_day_of_days_touched(sorted) ==
    round2(Rat(Len(sorted), days_from(sorted[1], sorted[Len(sorted)]) + 1))

\* days_span = (commit_times[-1] - commit_times[0]).days or 1;
\* round(len(commit_times) / days_span, 2)
commits_per_day_of(sorted) ==
    LET span == days_from(sorted[1], sorted[Len(sorted)])
        days_span == IF span = 0 THEN 1 ELSE span
    IN round2(Rat(Len(sorted), days_span))

\* a variant that calls a mean gap of an hour "high"
intensity_of_hour_included(avg_diff) ==
    IF RLe(avg_diff, RInt(1)) THEN "high"
    ELSE IF RLt(avg_diff, RInt(4)) THEN "moderate"
    ELSE "low"

intensity_of(avg_diff) ==
    IF RLt(avg_diff, RInt(1)) THEN "high"
    ELSE IF RLt(avg_diff, RInt(4)) THEN "moderate"
    ELSE "low"

burst_duration_of(avg_diff) ==
    IF RLt(avg_diff, RInt(4)) THEN "few hours"
    ELSE IF RLt(avg_diff, RInt(24)) THEN "day-length"
    ELSE "multi-day"

burst_frequency_of(commits_per_day) ==
    IF RLt(RInt(3), commits_per_day) THEN "frequent"
    ELSE IF RLt(RInt(1), commits_per_day) THEN "regular"
    ELSE "sporadic"

\* _analyze_activity_patterns of a list that sorts without an exception
_analyze_activity_patterns(times) ==
    IF times = <<>> THEN no_activity
    ELSE LET sorted == sort_times(times)
             commits_per_day == commits_per_day_of(sorted)
             time_diffs == [i \in 1 .. (Len(sorted) - 1) |->
                               hours_from(sorted[i], sorted[i + 1])]
             avg_diff == RDivInt(RSum(time_diffs), Len(time_diffs))
         IN [frequency |->
                [commits_per_day |-> commits_per_day,
                 active_hours |-> active_hours_of(sorted),
                 timezone_hint |-> tz_hint_of(peak_hour_of(sorted))],
             burst_patterns |->
                IF time_diffs # <<>>
                THEN [intensity |-> intensity_of(avg_diff),
                      average_duration |-> burst_duration_of(avg_diff),
                      frequency |-> burst_frequency_of(commits_per_day)]
                ELSE [intensity |-> "low", average_duration |-> "n/a",
                      frequency |-> "sporadic"]]

analyze_activity_patterns ==
    /\ pc = "activity"
    /\ IF commit_times # <<>> /\ sort_raises(commit_times)
       THEN /\ pc' = "activity_raised"
            /\ \E p \in Perms(1 .. Len(commit_times)) :
                   commit_times' = [i \in 1 .. Len(commit_times) |-> commit_times[p[i]]]
            /\ UNCHANGED activity_patterns
       ELSE /\ pc' = "activity_done"
            /\ commit_times' = sort_times(commit_times)
            /\ activity_patterns' = _analyze_activity_patterns(commit_times)
    /\ UNCHANGED <<now, report_data, checkout, given, max_repos, repositories,
                   selected, repo_metadata, sources_to_analyze, blame, author_stats,
                   sources_data, target_repos, git, commit_contents, walk_vars,
                   stats_vars, clean_vars>>
    /\ UNCHANGED analyze_vars
    /\ UNCHANGED pipeline_vars
    /\ UNCHANGED reselect_vars
    /\ UNCHANGED asked_vars
    /\ UNCHANGED clock_vars

\* the commit times of a run: within an hour, hours and days apart, in the
\* bands of the timezone hint, one of them without a UTC offset
at(d, h, m) == [day |-> d, hour |-> h, minute |-> m, aware |-> TRUE]

ActivityTimes ==
    {at(0, 9, 0), at(0, 9, 30), at(0, 13, 0), at(1, 3, 0), at(2, 23, 0), at(5, 17, 30),
     [day |-> 0, hour |-> 6, minute |-> 0, aware |-> FALSE]}

\* commits at one hour of the day, at two, and two at one hour with a third
\* at another, for every hour of the day
HourLists ==
    {<<at(0, h, 0)>> : h \in 0 .. 23}
    \cup {<<at(0, h[1], 0), at(1, h[2], 0)>> : h \in (0 .. 23) \X (0 .. 23)}
    \cup {<<at(0, h[1], 0), at(1, h[2], 0), at(2, h[1], 0)>> : h \in (0 .. 23) \X (0 .. 23)}

\* commits that follow each other at the given gaps (in minutes), from
\* midnight of the first day
RECURSIVE times_after(_, _)
times_after(minute, gaps) ==
    <<at(minute \div 1440, (minute % 1440) \div 60, minute % 60)>>
    \o (IF gaps = <<>> THEN <<>> ELSE times_after(minute + gaps[1], Tail(gaps)))

\* gaps of half an hour, one, two, four and six hours, one day and two days
BurstGaps == {30, 60, 120, 240, 360, 1440, 2880}

\* two to five commits at these gaps
BurstLists == {times_after(0, g) : g \in UNION {[1 .. n -> BurstGaps] : n \in 1 .. 4}}

\* nine commits at 09:00 and one at 13:00 (a tenth of all), and eight and one
ShareLists ==
    {times_after(540, <<0, 0, 0, 0, 0, 0, 0, 0, 240>>),
     times_after(540, <<0, 0, 0, 0, 0, 0, 0, 240>>)}

InitActivity ==
    /\ pc = "activity"
    /\ now = MaxTick
    /\ report_data = NoReport
    /\ checkout = EmptyDict
    /\ given = <<>>
    /\ max_repos = default_max_repos
    /\ repositories = <<>>
    /\ selected = <<>>
    /\ repo_metadata = EmptyDict
    /\ sources_to_analyze = <<>>
    /\ blame = NoBlame
    /\ author_stats = EmptyDict
    /\ sources_data = <<>>
    /\ target_repos = <<>>
    /\ git = EmptyDict
    /\ commit_contents = EmptyDict
    /\ WalkIdle
    /\ StatsIdle
    /\ CleanIdle
    /\ commit_times \in SeqsUpTo(ActivityTimes, MaxTimes) \cup HourLists \cup BurstLists
                          \cup ShareLists
    /\ activity_patterns = <<>>
    /\ AnalyzeIdle
    /\ PipelineIdle
    /\ ReselectIdle
    /\ AskedIdle
    /\ ClockIdle

SpecActivity == InitActivity /\ [][analyze_activity_patterns]_vars

(***************************************************************************)
(* StyleAnalyzer.analyze: the four phases over sources_data.  The language *)
(* model is outside the program: a call of generate_json_response returns  *)
(* a result ("ok"), returns null ("null") or raises ("raise"); llm holds   *)
(* what it does for every call of the run.  A phase is computed as         *)
(* [raised, value].                                                        *)
(***************************************************************************)
Outcomes == {"ok", "null", "raise"}

returned(v) == [raised |-> FALSE, value |-> v]
raising(e) == [raised |-> TRUE, value |-> e]

llm_result == [kind |-> "result"]
error_entry == [kind |-> "error"]

\* the loop shared by the three per-repository phases: a result is stored
\* when it is not null, an exception leaves {"error": str(e)}
combined_results_of(asked, answers) ==
    [r \in {q \in asked : answers[q] # "null"} |->
        IF answers[r] = "ok" THEN llm_result ELSE error_entry]

repos_of(sd) == {sd[i].repo : i \in 1 .. Len(sd)}

analyze_code_style(sd, answers) == returned(combined_results_of(repos_of(sd), answers))

analyze_project_preferences(sd, answers) ==
    returned(combined_results_of(repos_of(sd), answers))

\* datetime.fromisoformat of a report date ending in Z: a datetime with the
\* UTC offset
commit_time_of(ts) == at(ts \div TicksPerDay, (ts % TicksPerDay) * (24 \div TicksPerDay), 0)

report_commit_times(commits) ==
    LET present == SelectSeq(RepoSeq, LAMBDA r : r \in DOMAIN commits)
        times_of[i \in 0 .. Len(present)] ==
            IF i = 0 THEN <<>>
            ELSE times_of[i - 1] \o [k \in 1 .. Len(commits[present[i]]) |->
                                         commit_time_of(commits[present[i]][k].ts)]
    IN times_of[Len(present)]

\* a variant that asks for the commits only
_select_best_targets_by_commits(sd, commits) ==
    LET enough(e) ==
            (IF e.repo \in DOMAIN commits THEN Len(commits[e.repo]) ELSE 0)
                >= temporal_min_commits
        chosen == SelectSeq(sd, enough)
    IN [i \in 1 .. Len(chosen) |-> chosen[i].repo]

_select_best_targets(sd, commits) ==
    LET enough(e) ==
            /\ (IF e.repo \in DOMAIN commits THEN Len(commits[e.repo]) ELSE 0)
                  >= temporal_min_commits
            /\ e.file_count >= temporal_min_files
        chosen == SelectSeq(sd, enough)
    IN [i \in 1 .. Len(chosen) |-> chosen[i].repo]

\* the repositories the loop of analyze_temporal_patterns asks the language
\* model about: the targets with an entry in commit_contents
temporal_asked(sd, report) ==
    LET temporal_best_targets == _select_best_targets(sd, report.commits)
        contents == _get_commit_contents(temporal_best_targets, sd)
    IN {r \in repos_of(sd) : r \in Range(temporal_best_targets) /\ r \in DOMAIN contents}

analyze_temporal_patterns(sd, report, answers) ==
    LET commits == report.commits
        times == report_commit_times(commits)
    IN IF username_undetermined(sd) THEN raising("ValueError")
       ELSE LET asked == temporal_asked(sd, report)
            IN IF times # <<>> /\ sort_raises(times) THEN raising("TypeError")
               ELSE returned([commit_style_metrics |-> combined_results_of(asked, answers),
                              activity_patterns |-> _analyze_activity_patterns(times)])

\* try: result = ... except: print(...); return result
calculate_identity_confidence(answer) ==
    IF answer = "raise" THEN raising("UnboundLocalError")
    ELSE returned(IF answer = "ok" THEN Some(llm_result) ELSE None)

no_sources_error == [error |-> "sources_data required"]

\* the calls of generate_json_response of one phase
calls_of(phase, asked) == {[phase |-> phase, repo |-> r] : r \in asked}

analyze ==
    /\ pc = "analyze"
    /\ IF sources_data = <<>>
       THEN /\ pc' = "analyze_returned"
            /\ profile' = no_sources_error
            /\ UNCHANGED <<target_repos, commit_contents, llm_calls>>
       ELSE LET code_style == analyze_code_style(sources_data, llm.code_style)
                temporal_patterns ==
                    analyze_temporal_patterns(sources_data, report_data, llm.temporal)
                project_preferences ==
                    analyze_project_preferences(sources_data, llm.preferences)
                identity_confidence == calculate_identity_confidence(llm.identity)
                temporal_best_targets ==
                    _select_best_targets(sources_data, report_data.commits)
            IN /\ target_repos' = temporal_best_targets
               /\ IF temporal_patterns.raised
                  THEN /\ pc' = "analyze_raised"
                       /\ IF username_undetermined(sources_data)
                          THEN /\ llm_calls' =
                                     calls_of("code_style", repos_of(sources_data))
                               /\ UNCHANGED commit_contents
                          ELSE /\ commit_contents' =
                                     _get_commit_contents(temporal_best_targets,
                                                          sources_data)
                               /\ llm_calls' =
                                     calls_of("code_style", repos_of(sources_data))
                                     \cup calls_of("temporal",
                                                    temporal_asked(sources_data,
                                                                   report_data))
                       /\ UNCHANGED profile
                  ELSE /\ commit_contents' =
                              _get_commit_contents(temporal_best_targets, sources_data)
                       /\ llm_calls' =
                              calls_of("code_style", repos_of(sources_data))
                              \cup calls_of("temporal",
                                             temporal_asked(sources_data, report_data))
                              \cup calls_of("preferences", repos_of(sources_data))
                              \cup {[phase |-> "identity", repo |-> ""]}
                       /\ IF identity_confidence.raised
                          THEN /\ pc' = "analyze_raised"
                               /\ UNCHANGED profile
                          ELSE /\ pc' = "analyze_returned"
                               /\ profile' =
                                     [code_style_metrics |-> code_style.value,
                                      temporal_patterns |-> temporal_patterns.value,
                                      project_preferences |-> project_preferences.value,
                                      identity_confidence |-> identity_confidence.value]
    /\ UNCHANGED <<now, report_data, checkout, given, max_repos, repositories,
                   selected, repo_metadata, sources_to_analyze, blame, author_stats,
                   sources_data, git, walk_vars, stats_vars, clean_vars,
                   activity_vars, llm, pipeline_vars, reselect_vars>>
    /\ UNCHANGED clock_vars

\* A run over two repositories, each with one core file: "a" has the history
\* and the files of a temporal target, "b" has the history but a file too
\* few, or the files but too short a history; or over none, when the
\* structure analysis kept no repository.
feed_at(stamps) == [k \in 1 .. Len(stamps) |-> [ok |-> TRUE, ts |-> stamps[k]]]

AnalyzeReport ==
    [contributors |-> <<>>,
     commits |-> [r \in Repos |-> IF r = "a" THEN feed_at(<<0, 0, 0, MaxTick, MaxTick>>)
                                  ELSE feed_at(<<0>>)]]

\* the report in which "b" has the history of a target
AnalyzeReportLong ==
    [contributors |-> <<>>,
     commits |-> [r \in Repos |-> feed_at(<<0, 0, 0, MaxTick, MaxTick>>)]]

AnalyzeFileAnswers ==
    {log_failed("cpe"),
     log_ok(<<[sha |-> 1, date |-> 1, show |-> show_ok(small_diff),
               content |-> content_ok("text")]>>)}

InitAnalyze ==
    /\ pc = "analyze"
    /\ now = MaxTick
    /\ checkout = EmptyDict
    /\ given = <<>>
    /\ max_repos = default_max_repos
    /\ repositories = <<>>
    /\ selected = <<>>
    /\ repo_metadata = EmptyDict
    /\ sources_to_analyze = <<>>
    /\ blame = NoBlame
    /\ author_stats = EmptyDict
    /\ target_repos = <<>>
    /\ \/ /\ sources_data = <<>>
          /\ report_data = AnalyzeReport
       \/ \E sa \in {name_u_a, name_without_user}, long \in BOOLEAN :
             /\ report_data = (IF long THEN AnalyzeReportLong ELSE AnalyzeReport)
             /\ sources_data =
                   <<[repo |-> "a", structure_name |-> sa,
                      core_files |-> <<"f1">>, file_count |-> temporal_min_files],
                     [repo |-> "b", structure_name |-> name_u_b,
                      core_files |-> <<"f1">>,
                      file_count |-> IF long THEN temporal_min_files - 1
                                     ELSE temporal_min_files]>>
    /\ \E a1 \in AnalyzeFileAnswers :
          git = [r \in Repos |-> [f \in {"f1"} |-> a1]]
    /\ commit_contents = EmptyDict
    /\ WalkIdle
    /\ StatsIdle
    /\ CleanIdle
    /\ ActivityIdle
    /\ llm \in [code_style : [Repos -> Outcomes], temporal : [Repos -> Outcomes],
                 preferences : [Repos -> Outcomes], identity : Outcomes]
    /\ profile = <<>>
    /\ PipelineIdle
    /\ ReselectIdle
    /\ AskedIdle
    /\ ClockIdle

SpecAnalyze == InitAnalyze /\ [][analyze]_vars

(***************************************************************************)
(* The run from StyleAnalyzer.__init__ to the sampling of the temporal     *)
(* phase.  events lists, in the order the code reaches them, the calls of  *)
(* _get_repository_stats ("stats"), the assignments of analysis_score      *)
(* ("score") and the repositories _get_commit_contents sampled ("sample"). *)
(***************************************************************************)
event(op, repo_name) == [op |-> op, repo |-> repo_name]

\* _analyze_repositories calls _get_repository_stats for every repository with
\* a checkout, in the order of all_repos
profiled(all_repos) == SelectSeq(all_repos, LAMBDA r : checkout[r].exists)

\* the single-contributor repositories select_repositories profiles afterwards
profiled_later(selected_repos, single_contributor_repos) ==
    SelectSeq(single_contributor_repos,
              LAMBDA r : /\ \A i \in 1 .. Len(selected_repos) : selected_repos[i].name # r
                         /\ checkout[r].exists)

\* a variant that scores the repositories before it profiles them
selection_events_scoring_first(rd, all_repos) ==
    LET analysed == _analyze_repositories(rd, all_repos)
        first == profiled(all_repos)
    IN [i \in 1 .. Len(analysed) |-> event("score", analysed[i].name)]
       \o [i \in 1 .. Len(first) |-> event("stats", first[i])]

\* select_repositories: _analyze_repositories profiles, then
\* _select_best_repositories scores the repositories that have stats, then the
\* remaining single-contributor repositories are profiled
selection_events(rd, all_repos) ==
    LET analysed == _analyze_repositories(rd, all_repos)
        first == profiled(all_repos)
        later == IF owner_test_raises(rd) THEN <<>>
                 ELSE profiled_later(_select_best_repositories(analysed, default_max_repos),
                                     _get_only_owner_sources(rd))
    IN [i \in 1 .. Len(first) |-> event("stats", first[i])]
       \o [i \in 1 .. Len(analysed) |-> event("score", analysed[i].name)]
       \o [i \in 1 .. Len(later) |-> event("stats", later[i])]

\* the name of the checkout directory of a repository, username_repo.git
structure_name_of(repo_name) == IF repo_name = "a" THEN name_u_a ELSE name_u_b

\* analyze_repository_structure: an entry for every repository with a
\* checkout, in the order of repo_names; every checkout here has the files
\* of a temporal target and one core file
analyze_repository_structure(repo_names) ==
    LET present == SelectSeq(repo_names, LAMBDA r : checkout[r].exists)
    IN [i \in 1 .. Len(present) |->
           [repo |-> present[i], structure_name |-> structure_name_of(present[i]),
            core_files |-> <<"f1">>, file_count |-> temporal_min_files]]

\* StyleAnalyzer.__init__: the selection, then the structure analysis
style_analyzer_init ==
    /\ pc = "init"
    /\ pc' = IF owner_test_raises(report_data)
             THEN "init_raised"   \* ValueError("Error getting sources to analyze: ...")
             ELSE "constructed"
    /\ IF selector = "repo_selector"
       THEN \E all_repos \in Perms(all_repos_of(report_data)) :
              LET analysed == _analyze_repositories(report_data, all_repos)
                  selected_repos == _select_best_repositories(analysed, default_max_repos)
              IN /\ given' = analysed
                 /\ repositories' = sorted_by_score(analysed)
                 /\ selected' = selected_repos
                 /\ events' = selection_events(report_data, all_repos)
                 /\ IF owner_test_raises(report_data)
                    THEN UNCHANGED <<repo_metadata, sources_to_analyze, sources_data>>
                    ELSE LET single_contributor_repos ==
                                 _get_only_owner_sources(report_data)
                             all_repo_names ==
                                 {selected_repos[i].name : i \in 1 .. Len(selected_repos)}
                                 \cup Range(single_contributor_repos)
                         IN /\ repo_metadata' = metadata_of(report_data, selected_repos,
                                                            single_contributor_repos)
                            /\ \E result \in Perms(all_repo_names) :
                                  /\ sources_to_analyze' = result
                                  /\ sources_data' = analyze_repository_structure(result)
       ELSE /\ UNCHANGED <<given, repositories, selected, repo_metadata, events>>
            /\ IF owner_test_raises(report_data)
               THEN UNCHANGED <<sources_to_analyze, sources_data>>
               ELSE /\ sources_to_analyze' = _get_sources_to_analyze(report_data)
                    /\ sources_data' = analyze_repository_structure(
                                           _get_sources_to_analyze(report_data))
    /\ UNCHANGED <<now, report_data, checkout, max_repos, blame, author_stats,
                   target_repos, git, commit_contents, walk_vars, stats_vars,
                   clean_vars, activity_vars, analyze_vars, selector>>
    /\ UNCHANGED reselect_vars
    /\ UNCHANGED asked_vars
    /\ UNCHANGED clock_vars

\* analyze up to the sampling of analyze_temporal_patterns: nothing runs
\* without sources_data; _select_best_targets, then _get_commit_contents
sample_temporal_targets ==
    /\ pc = "constructed"
    /\ IF sources_data = <<>>
       THEN /\ pc' = "no_sources"
            /\ UNCHANGED <<target_repos, commit_contents, events>>
       ELSE LET temporal_best_targets ==
                    _select_best_targets(sources_data, report_data.commits)
                sampled == SelectSeq(temporal_best_targets,
                               LAMBDA r : r \in sampled_repos(temporal_best_targets,
                                                               sources_data))
            IN /\ target_repos' = temporal_best_targets
               /\ IF username_undetermined(sources_data)
                  THEN /\ pc' = "sampling_raised"
                       /\ UNCHANGED <<commit_contents, events>>
                  ELSE /\ pc' = "targets_sampled"
                       /\ commit_contents' =
                              _get_commit_contents(temporal_best_targets, sources_data)
                       /\ events' = events \o [i \in 1 .. Len(sampled) |->
                                                   event("sample", sampled[i])]
    /\ UNCHANGED <<now, report_data, checkout, given, max_repos, repositories,
                   selected, repo_metadata, sources_to_analyze, blame, author_stats,
                   sources_data, git, walk_vars, stats_vars, clean_vars,
                   activity_vars, analyze_vars, selector>>
    /\ UNCHANGED reselect_vars
    /\ UNCHANGED asked_vars
    /\ UNCHANGED clock_vars

\* A run over two repositories: each is listed with the user alone, with the
\* user and another contributor, with nobody, or not at all; each has the feed of a
\* temporal target or none; each checkout is missing, answers git log, or
\* fails it.
PipelineContributors ==
    {[present |-> FALSE, contributors |-> <<>>]}
    \cup {[present |-> TRUE, contributors |-> c] : c \in {<<>>, <<"u">>, <<"u", "v">>}}

PipelineFeeds ==
    {[present |-> FALSE, feed |-> <<>>],
     [present |-> TRUE, feed |-> feed_at(<<0, 0, 0, MaxTick, MaxTick>>)]}

PipelineCheckouts ==
    {[exists |-> FALSE, log |-> [returncode |-> 128, stdout |-> <<>>], files |-> <<>>],
     [exists |-> TRUE, log |-> [returncode |-> 128, stdout |-> <<>>], files |-> <<>>],
     [exists |-> TRUE, log |-> [returncode |-> 0, stdout |-> <<0>>], files |-> <<>>]}

InitPipeline ==
    /\ pc = "init"
    /\ now = MaxTick
    /\ \E c \in [Repos -> PipelineContributors], f \in [Repos -> PipelineFeeds] :
          report_data = report_from(c, f)
    /\ checkout \in [Repos -> PipelineCheckouts]
    /\ given = <<>>
    /\ max_repos = default_max_repos
    /\ repositories = <<>>
    /\ selected = <<>>
    /\ repo_metadata = EmptyDict
    /\ sources_to_analyze = <<>>
    /\ blame = NoBlame
    /\ author_stats = EmptyDict
    /\ sources_data = <<>>
    /\ target_repos = <<>>
    /\ \E a1 \in AnalyzeFileAnswers :
          git = [r \in Repos |-> [f \in {"f1"} |-> a1]]
    /\ commit_contents = EmptyDict
    /\ WalkIdle
    /\ StatsIdle
    /\ CleanIdle
    /\ ActivityIdle
    /\ AnalyzeIdle
    /\ selector \in {"repo_selector", "default"}
    /\ events = <<>>
    /\ ReselectIdle
    /\ AskedIdle
    /\ ClockIdle

NextPipeline == style_analyzer_init \/ sample_temporal_targets

SpecPipeline == InitPipeline /\ [][NextPipeline]_vars

(***************************************************************************)
(* Calls of select_repositories, one after another, on the same            *)
(* RepositorySelector, each with a report of its own.                      *)
(***************************************************************************)
\* the reports of the calls: each repository listed with the user alone, with
\* the user and another contributor, with nobody, or not listed; no feed
ReselectReports ==
    {report_from(c, [r \in Repos |-> [present |-> FALSE, feed |-> <<>>]]) :
        c \in [Repos -> PipelineContributors]}

\* a checkout is missing, or has one commit
ReselectCheckouts ==
    {[exists |-> FALSE, log |-> [returncode |-> 128, stdout |-> <<>>], files |-> <<>>],
     [exists |-> TRUE, log |-> [returncode |-> 0, stdout |-> <<0>>], files |-> <<>>]}

\* a variant that adds the entries of the call to the ones it finds
rebuilt_metadata_onto(old, rd, selected_repos, single_contributor_repos) ==
    LET fresh == metadata_of(rd, selected_repos, single_contributor_repos)
    IN [name \in DOMAIN old \cup DOMAIN fresh |->
           IF name \in DOMAIN fresh THEN fresh[name] ELSE old[name]]

\* self.repo_metadata = {} and the two loops that fill it; old is the
\* repo_metadata the call finds
rebuilt_metadata(old, rd, selected_repos, single_contributor_repos) ==
    metadata_of(rd, selected_repos, single_contributor_repos)

select_repositories_again ==
    /\ pc \in {"start", "selected", "select_raised"}
    /\ calls < MaxCalls
    /\ calls' = calls + 1
    /\ previous_names' = DOMAIN repo_metadata
    /\ \E rd \in ReselectReports :
         /\ report_data' = rd
         /\ \E all_repos \in Perms(all_repos_of(rd)) :
              LET analysed == _analyze_repositories(rd, all_repos)
                  selected_repos == _select_best_repositories(analysed, default_max_repos)
                  selected_repo_names ==
                      {selected_repos[i].name : i \in 1 .. Len(selected_repos)}
              IN /\ given' = analysed
                 /\ repositories' = sorted_by_score(analysed)
                 /\ selected' = selected_repos
                 /\ IF owner_test_raises(rd)
                    THEN /\ pc' = "select_raised"
                         /\ UNCHANGED <<repo_metadata, sources_to_analyze>>
                    ELSE LET single_contributor_repos == _get_only_owner_sources(rd)
                             all_repo_names == selected_repo_names
                                               \cup Range(single_contributor_repos)
                         IN /\ pc' = "selected"
                            /\ repo_metadata' =
                                  rebuilt_metadata(repo_metadata, rd, selected_repos,
                                                   single_contributor_repos)
                            /\ \E result \in Perms(all_repo_names) :
                                   sources_to_analyze' = result
    /\ UNCHANGED <<now, checkout, max_repos, blame, author_stats,
                   sources_data, target_repos, git, commit_contents, walk_vars,
                   stats_vars, clean_vars, activity_vars, analyze_vars, pipeline_vars>>
    /\ UNCHANGED asked_vars
    /\ UNCHANGED clock_vars

InitReselect ==
    /\ pc = "start"
    /\ now = MaxTick
    /\ report_data = NoReport
    /\ checkout \in [Repos -> ReselectCheckouts]
    /\ given = <<>>
    /\ max_repos = default_max_repos
    /\ repositories = <<>>
    /\ selected = <<>>
    /\ repo_metadata = EmptyDict
    /\ sources_to_analyze = <<>>
    /\ blame = NoBlame
    /\ author_stats = EmptyDict
    /\ sources_data = <<>>
    /\ target_repos = <<>>
    /\ git = EmptyDict
    /\ commit_contents = EmptyDict
    /\ WalkIdle
    /\ StatsIdle
    /\ CleanIdle
    /\ ActivityIdle
    /\ AnalyzeIdle
    /\ PipelineIdle
    /\ calls = 0
    /\ previous_names = {}
    /\ AskedIdle
    /\ ClockIdle

SpecReselect == InitReselect /\ [][select_repositories_again]_vars

(***************************************************************************)
(* Properties of the selection (SpecSelection).                            *)
(***************************************************************************)
names_of(repos) == {repos[i].name : i \in 1 .. Len(repos)}

single_contributor_repos_of(rd) ==
    {rd.contributors[i].repo :
        i \in {j \in 1 .. Len(rd.contributors) : rd.contributors[j].contributors = <<username>>}}

\* C1: the list select_repositories returns holds every single-contributor
\* repository of the report, scored or not, and so every repository the
\* default selection returns.
C1_SingleContributorsSelected ==
    pc = "selected" =>
        /\ single_contributor_repos_of(report_data) \subseteq Range(sources_to_analyze)
        /\ Range(_get_sources_to_analyze(report_data)) \subseteq Range(sources_to_analyze)

C1_Witness ==
    /\ pc = "selected"
    /\ \E r \in single_contributor_repos_of(report_data) :
          /\ r \notin names_of(repositories)
          /\ r \in Range(sources_to_analyze)
    /\ names_of(repositories) # {}

\* C2: after select_repositories returned, every returned name has an entry
\* in repo_metadata with the keys contribution_files and stats, whether or not
\* its checkout exists.
C2_EveryNameHasMetadata ==
    pc = "selected" =>
        \A r \in Range(sources_to_analyze) :
            /\ r \in DOMAIN repo_metadata
            /\ DOMAIN repo_metadata[r] = {"contribution_files", "stats"}

\* the stats of a repository cannot be computed: no checkout, git log fails,
\* a date of the feed does not parse, or there is no timestamp at all
stats_unavailable(r) ==
    \/ ~checkout[r].exists
    \/ checkout[r].log.returncode # 0
    \/ \E i \in 1 .. Len(feed_of(report_data, r)) : ~feed_of(report_data, r)[i].ok
    \/ checkout[r].log.stdout = <<>> /\ feed_of(report_data, r) = <<>>

\* C3: a returned repository without precomputed metadata gets its metadata
\* computed on demand: it has an entry, and the entry's stats are the empty
\* object when the stats cannot be computed.
C3_MetadataComputedOnDemand ==
    pc = "selected" =>
        \A r \in Range(sources_to_analyze) \ names_of(selected) :
            /\ r \in DOMAIN repo_metadata
            /\ stats_unavailable(r) => repo_metadata[r].stats = EmptyDict

\* the report without every mention of repository r
report_without(rd, r) ==
    [contributors |-> SelectSeq(rd.contributors, LAMBDA obj : obj.repo # r),
     commits |-> [q \in DOMAIN rd.commits \ {r} |-> rd.commits[q]]]

\* the stats computation of an existing checkout fails
stats_computation_fails(r) ==
    /\ checkout[r].exists
    /\ \/ checkout[r].log.returncode # 0
       \/ \E i \in 1 .. Len(feed_of(report_data, r)) : ~feed_of(report_data, r)[i].ok

\* C10: a repository whose stats computation fails gets the empty stats, is
\* left out of the scored list, and the other repositories are scored as they
\* are for the report without it.
C10_FailingRepositoryLeftOut ==
    pc \in {"selected", "select_raised"} =>
        \A r \in all_repos_of(report_data) :
            stats_computation_fails(r) =>
                /\ _get_repository_stats(checkout[r].log, feed_of(report_data, r)) = EmptyDict
                /\ r \notin names_of(repositories)
                /\ LET rest == report_without(report_data, r)
                       order == CHOOSE o \in Perms(all_repos_of(rest)) : TRUE
                   IN Range(repositories)
                          = Range(sorted_by_score(_analyze_repositories(rest, order)))

C10_Witness ==
    /\ pc = "selected"
    /\ \E r \in all_repos_of(report_data) :
          /\ stats_computation_fails(r)
          /\ names_of(repositories) # {}
          /\ r \in Range(sources_to_analyze)

(***************************************************************************)
(* Properties of _select_best_repositories (SpecBest).                     *)
(***************************************************************************)
position_in(repos, name) == CHOOSE i \in 1 .. Len(repos) : repos[i].name = name
score_of(name) == repositories[position_in(repositories, name)].analysis_score

\* C4: the selection returns min(len, max_repos) repositories of the input,
\* in non-increasing order of score; no repository left out scores more than
\* a returned one; repositories of equal score keep their input order, at the
\* cut-off too.
C4_TopByScoreStable ==
    pc = "best_done" =>
        LET n == Len(selected)
        IN /\ n = Min(Len(given), max_repos)
           /\ names_of(selected) \subseteq names_of(given)
           /\ \A i, j \in 1 .. n : i < j =>
                  /\ selected[i].name # selected[j].name
                  /\ RLe(selected[j].analysis_score, selected[i].analysis_score)
           /\ \A k \in 1 .. Len(given) : \A i \in 1 .. n :
                  given[k].name \notin names_of(selected)
                      => RLe(score_of(given[k].name), selected[i].analysis_score)
           /\ \A k1, k2 \in 1 .. Len(given) :
                  (/\ k1 < k2
                   /\ score_of(given[k1].name) = score_of(given[k2].name)
                   /\ given[k2].name \in names_of(selected))
                  => /\ given[k1].name \in names_of(selected)
                     /\ position_in(selected, given[k1].name)
                            < position_in(selected, given[k2].name)

C4_Witness ==
    /\ pc = "best_done"
    /\ Len(selected) >= 2
    /\ Len(given) > Len(selected)
    /\ selected[1].analysis_score = selected[2].analysis_score
    /\ selected[Len(selected)].analysis_score
           = repositories[Len(selected) + 1].analysis_score

\* C5: with commit_count, contribution files and the other input fixed, the
\* score does not fall when commits_per_day grows and does not grow when
\* days_since_last_commit grows.
C5_ScoreMonotone ==
    pc = "best_done" =>
        \A i, j \in 1 .. Len(repositories) :
            LET x == repositories[i]
                y == repositories[j]
                same == /\ x.stats.commit_count = y.stats.commit_count
                        /\ x.contribution_files = y.contribution_files
            IN /\ (/\ same
                   /\ x.stats.last_commit = y.stats.last_commit
                   /\ RLe(x.stats.commits_per_day, y.stats.commits_per_day))
                  => RLe(x.analysis_score, y.analysis_score)
               /\ (/\ same
                   /\ x.stats.commits_per_day = y.stats.commits_per_day
                   /\ (now - x.stats.last_commit) \div TicksPerDay
                          <= (now - y.stats.last_commit) \div TicksPerDay)
                  => RLe(y.analysis_score, x.analysis_score)

C5_Witness ==
    /\ pc = "best_done"
    /\ \E i, j \in 1 .. Len(repositories) :
          /\ repositories[i].stats.last_commit = repositories[j].stats.last_commit
          /\ repositories[i].contribution_files = repositories[j].contribution_files
          /\ RLt(repositories[i].stats.commits_per_day, repositories[j].stats.commits_per_day)
          /\ RLt(repositories[i].analysis_score, repositories[j].analysis_score)
    /\ \E i, j \in 1 .. Len(repositories) :
          /\ repositories[i].stats.commits_per_day = repositories[j].stats.commits_per_day
          /\ repositories[i].contribution_files = repositories[j].contribution_files
          /\ repositories[i].stats.last_commit < repositories[j].stats.last_commit
          /\ RLt(repositories[i].analysis_score, repositories[j].analysis_score)

(***************************************************************************)
(* Properties of _get_file_author_stats (SpecBlame).                       *)
(***************************************************************************)
RECURSIVE sum_over(_, _)
sum_over(f, S) ==
    IF S = {} THEN RInt(0)
    ELSE LET a == CHOOSE x \in S : TRUE IN RAdd(f[a], sum_over(f, S \ {a}))

blamed_lines(author) ==
    {i \in 1 .. Len(blame.stdout) :
        blame.stdout[i].prefix = "author " /\ blame.stdout[i].rest = author}

\* C6: when blame reports at least one line, the percentages of the authors
\* of the file sum to 100, each being the author's line count over the total
\* line count times 100; when it reports none, the result is empty.
C6_PercentagesSumTo100 ==
    pc = "blamed" =>
        LET total == Cardinality(UNION {blamed_lines(a) : a \in Authors})
        IN IF ~blame.raised /\ blame.returncode = 0 /\ total > 0
           THEN /\ DOMAIN author_stats = {a \in Authors : blamed_lines(a) # {}}
                /\ \A a \in DOMAIN author_stats :
                       author_stats[a] = Rat(Cardinality(blamed_lines(a)) * 100, total)
                /\ sum_over(author_stats, DOMAIN author_stats) = RInt(100)
           ELSE author_stats = EmptyDict

C6_Witness ==
    /\ pc = "blamed"
    /\ Cardinality(DOMAIN author_stats) = 2
    /\ \E i \in 1 .. Len(blame.stdout) : blame.stdout[i].prefix # "author "

(***************************************************************************)
(* Properties of the commit sampler (SpecSampler, SpecSamplerFaults).      *)
(***************************************************************************)
commits_by_file_of(r) == commit_contents[r].evolution.commits_by_file
history_of(r, f) == git[r][f].log.history

\* C7: a file of the output has at most 3 commits, none with a cleaned diff
\* that is empty or blank, none from a commit whose raw diff has more than
\* max_diff_lines lines.
C7_SampleBounds ==
    pc = "sampled" =>
        \A r \in DOMAIN commit_contents : \A f \in DOMAIN commits_by_file_of(r) :
            /\ Len(commits_by_file_of(r)[f]) <= 3
            /\ \A k \in 1 .. Len(commits_by_file_of(r)[f]) :
                  LET e == commits_by_file_of(r)[f][k]
                  IN /\ \E i \in 1 .. Len(e.changes) : \E j \in 1 .. Len(e.changes[i]) :
                            e.changes[i][j] \notin {" ", "\t"}
                     /\ history_of(r, f)[e.sha].show.kind = "ok"
                     /\ Len(history_of(r, f)[e.sha].show.diff) <= max_diff_lines

C7_Witness ==
    /\ pc = "sampled"
    /\ "a" \in DOMAIN commit_contents
    /\ "f1" \in DOMAIN commits_by_file_of("a")
    /\ Len(history_of("a", "f1")) = 5
    /\ Len(history_of("a", "f1")[1].show.diff) > max_diff_lines
    /\ history_of("a", "f1")[3].show.diff = header_only_diff
    /\ Len(commits_by_file_of("a")["f1"]) = 1

\* C8: in the final commits_by_file, a 'content' field is only on the first
\* and the last entry of a file's list, never on an entry between two others.
C8_ContentOnlyAtEnds ==
    pc = "sampled" =>
        \A r \in DOMAIN commit_contents : \A f \in DOMAIN commits_by_file_of(r) :
            \A k \in 2 .. (Len(commits_by_file_of(r)[f]) - 1) :
                "content" \notin DOMAIN commits_by_file_of(r)[f][k]

\* every git invocation for the commit succeeds and its diff is kept
sample_is_healthy(c) ==
    /\ c.show.kind = "ok"
    /\ c.content.kind = "ok"
    /\ Len(c.show.diff) <= max_diff_lines
    /\ c.show.diff = small_diff

\* C9: a failing git invocation for one commit or one file skips only that
\* commit or file: every other sampled commit of the repository, and of the
\* other repositories, is returned.
C9_FailureSkipsOnlyItsUnit ==
    pc = "sampled" =>
        \A i \in 1 .. Len(sources_data) :
            LET r == sources_data[i].repo
            IN (r \in Range(target_repos) /\ sources_data[i].structure_name # <<>>) =>
                  \A f \in Range(sources_data[i].core_files) :
                      git[r][f].log.kind = "ok" =>
                          \A c \in Range(commits_to_process_of(history_of(r, f))) :
                              sample_is_healthy(c) =>
                                  /\ r \in DOMAIN commit_contents
                                  /\ f \in DOMAIN commits_by_file_of(r)
                                  /\ \E k \in 1 .. Len(commits_by_file_of(r)[f]) :
                                         commits_by_file_of(r)[f][k].sha = c.sha

\* the first repository of sources_data that has a structure name
first_named(sd) ==
    CHOOSE i \in 1 .. Len(sd) :
        /\ sd[i].structure_name # <<>>
        /\ \A j \in 1 .. (i - 1) : sd[j].structure_name = <<>>

\* C12 as stated: _get_commit_contents raises exactly when no repository of
\* sources_data has a non-empty structure name.
C12_RaisesIffNoStructureName ==
    pc \in {"sampled", "sample_raised"} =>
        (pc = "sample_raised"
            <=> \A i \in 1 .. Len(sources_data) : sources_data[i].structure_name = <<>>)

\* C12, amended: _get_commit_contents raises exactly when no repository of
\* sources_data has a non-empty structure name or the first such name has
\* nothing before its first underscore; when it raises nothing is sampled.
C12_RaisesIffNoUsername ==
    pc \in {"sampled", "sample_raised"} =>
        /\ pc = "sample_raised"
              <=> \/ \A i \in 1 .. Len(sources_data) : sources_data[i].structure_name = <<>>
                  \/ sources_data[first_named(sources_data)].structure_name[1] = "_"
        /\ pc = "sample_raised" => commit_contents = EmptyDict

C12_Witness ==
    /\ pc = "sample_raised"
    /\ sources_data[1].structure_name = name_without_user
    /\ sources_data[2].structure_name = name_u_b

(***************************************************************************)
(* The score of one repository (SpecScore).                                *)
(***************************************************************************)
scored == repositories[1]
days_since_last_commit_of(repo) == (now - repo.stats.last_commit) \div TicksPerDay
average_percentage_of(repo) ==
    RDivInt(RSum([i \in 1 .. Len(repo.contribution_files) |->
                     repo.contribution_files[i].contribution_percentage]),
            Len(repo.contribution_files))

stated_recency(repo) ==
    RMax(RInt(0), RSub(RInt(35), Rat(days_since_last_commit_of(repo), 30)))
stated_activity(repo) ==
    RMin(RInt(35), RAdd(RInt(repo.stats.commit_count * 2),
                        RMul(repo.stats.commits_per_day, RInt(10))))
stated_contribution(repo) ==
    IF Len(repo.contribution_files) >= 1
    THEN RMin(RInt(30), RAdd(RInt(Len(repo.contribution_files) * 2),
                             RDivInt(average_percentage_of(repo), 5)))
    ELSE RMin(RInt(15), Rat(repo.stats.commit_count, 2))

\* the repository of the example: last commit today, 50 commits, 5 a day,
\* 3 contribution files averaging 60%
is_example_a(repo) ==
    /\ days_since_last_commit_of(repo) = 0
    /\ repo.stats.commit_count = 50
    /\ repo.stats.commits_per_day = RInt(5)
    /\ Len(repo.contribution_files) = 3
    /\ average_percentage_of(repo) = RInt(60)

\* C13: the score of a repository is recency + activity + contribution with
\* recency = max(0, 35 - days/30) (0 from 1050 days on), activity =
\* min(35, 2*commit_count + 10*commits_per_day), contribution =
\* min(30, 2*file_count + average/5) with files and min(15, commit_count/2)
\* without; the example repository scores 35 + 35 + 18 = 88.
C13_ScoreFormula ==
    pc = "best_done" =>
        /\ scored.analysis_score
               = RAdd(RAdd(stated_recency(scored), stated_activity(scored)),
                      stated_contribution(scored))
        /\ days_since_last_commit_of(scored) >= 1050 => stated_recency(scored) = RInt(0)
        /\ days_since_last_commit_of(scored) < 1050 => RLt(RInt(0), stated_recency(scored))
        /\ is_example_a(scored) =>
               /\ stated_recency(scored) = RInt(35)
               /\ stated_activity(scored) = RInt(35)
               /\ stated_contribution(scored) = RInt(18)
               /\ scored.analysis_score = RInt(88)

C13_Witness ==
    /\ pc = "best_done"
    /\ is_example_a(scored)
    /\ scored.analysis_score = RInt(88)

\* the repository of the second example: last commit 2 years (730 days) ago,
\* 3 commits, no contribution files
is_example_b(repo) ==
    /\ days_since_last_commit_of(repo) = 730
    /\ repo.stats.commit_count = 3
    /\ repo.contribution_files = <<>>

\* x is y to within a half
about(x, y) == RLe(RSub(x, y), Rat(1, 2)) /\ RLe(RSub(y, x), Rat(1, 2))

\* C14 as stated: the second example repository gets recency about 0,
\* activity 6, the fallback 1.5 and a total of about 7.5.
C14_ExampleScoresSevenAndAHalf ==
    (pc = "best_done" /\ is_example_b(scored)) =>
        /\ about(recency_score(scored.stats), RInt(0))
        /\ commit_score(scored.stats) = RInt(6)
        /\ contribution_score(scored.stats, scored.contribution_files) = Rat(3, 2)
        /\ about(scored.analysis_score, Rat(15, 2))

\* C14, amended: the second example repository gets recency 35 - 730/30 =
\* 32/3 (about 10.67), activity min(35, 6 + 10*commits_per_day), which is
\* more than 6, the fallback 1.5, and so a total above 18.
C14_ExampleScoresAboveEighteen ==
    (pc = "best_done" /\ is_example_b(scored)) =>
        /\ recency_score(scored.stats) = Rat(32, 3)
        /\ commit_score(scored.stats)
               = RMin(RInt(35), RAdd(RInt(6), RMul(scored.stats.commits_per_day, RInt(10))))
        /\ RLt(RInt(6), commit_score(scored.stats))
        /\ contribution_score(scored.stats, scored.contribution_files) = Rat(3, 2)
        /\ scored.analysis_score
               = RAdd(RAdd(Rat(32, 3), commit_score(scored.stats)), Rat(3, 2))
        /\ RLt(RInt(18), scored.analysis_score)

C14_Witness ==
    /\ pc = "best_done"
    /\ is_example_b(scored)
    /\ scored.stats.commits_per_day = Rat(1, 100)
    /\ scored.analysis_score = Rat(274, 15)

(***************************************************************************)
(* Properties of _analyze_contribution_files (SpecFiles).                  *)
(***************************************************************************)
\* the user's share of the blamed lines of a file, in percent, as a pair
\* <<own lines * 100, all lines>>; all lines is 0 when blame gave nothing
share_of(f) ==
    IF f.blame.raised \/ f.blame.returncode # 0 THEN <<0, 0>>
    ELSE <<100 * Cardinality({i \in 1 .. Len(f.blame.stdout) :
                                 /\ f.blame.stdout[i].prefix = "author "
                                 /\ f.blame.stdout[i].rest = username}),
           Cardinality({i \in 1 .. Len(f.blame.stdout) :
                           f.blame.stdout[i].prefix = "author "})>>

\* analyzable, in the words of the claim
stated_analyzable(path) ==
    /\ \A i \in 1 .. Len(path) :
           path[i] \notin {"node_modules", "__pycache__", "build", "dist", ".git",
                           "vendor", "third_party", "external"}
    /\ path[Len(path)] \in {"main.py", "Main.PY"}

\* to be kept, in the words of the claim
stated_kept(f) ==
    /\ stated_analyzable(f.path)
    /\ share_of(f)[1] > 0
    /\ share_of(f)[1] >= 20 * share_of(f)[2]

pool_size == Len(log_answer.stdout) + Len(commit_feed)
pool == Range(log_answer.stdout) \cup {commit_feed[i].ts : i \in 1 .. Len(commit_feed)}

\* C16: when _get_repository_stats succeeds, first_commit and last_commit are
\* the (local) times of the minimum and maximum of the merged timestamps,
\* commit_count counts every timestamp of both sources (no deduplication),
\* active_days is the whole-day span from first to last plus one (at least
\* 1) and commits_per_day is commit_count / active_days.
C16_StatsOfMergedPool ==
    (pc = "stats_done" /\ stats_returned # EmptyDict) =>
        /\ stats_returned.first_commit = fromtimestamp(min_of(pool))
        /\ stats_returned.last_commit = fromtimestamp(max_of(pool))
        /\ stats_returned.commit_count = pool_size
        /\ stats_returned.active_days >= 1
        /\ (stats_returned.active_days - 1) * TicksPerDay
               <= stats_returned.last_commit - stats_returned.first_commit
        /\ stats_returned.last_commit - stats_returned.first_commit
               < stats_returned.active_days * TicksPerDay
        /\ stats_returned.commits_per_day = Rat(stats_returned.commit_count, stats_returned.active_days)

(***************************************************************************)
(* The sample points of a file (SpecSampler).                              *)
(***************************************************************************)
\* the indices (from 0, as in the program) of the sample points the claim
\* names for a history of n commits
stated_indices(n) ==
    {i \in 0 .. (n - 1) : i = 0 \/ (n > 4 /\ i = n \div 2) \/ (n > 1 /\ i = n - 1)}

\* the sample points are the commits at the stated indices, in the order of
\* the history, and every commit of the output is one of them
samples_as_stated(h, out) ==
    LET picks == commits_to_process_of(h)
    IN /\ Len(picks) = Cardinality(stated_indices(Len(h)))
       /\ \A k \in 1 .. Len(picks) : \E i \in stated_indices(Len(h)) :
              /\ picks[k] = h[i + 1]
              /\ Cardinality({j \in stated_indices(Len(h)) : j < i}) = k - 1
       /\ \A k \in 1 .. Len(out) : \E j \in 1 .. Len(picks) : out[k].sha = picks[j].sha

output_of(r, f) ==
    IF r \in DOMAIN commit_contents /\ f \in DOMAIN commits_by_file_of(r)
    THEN commits_by_file_of(r)[f] ELSE <<>>

\* C17 as stated: the sample points of a file are h[0], h[len // 2] if
\* len > 4 and h[-1] if len > 1, in this order, and there are between 1 and
\* 3 of them whatever the length of the history.
C17_OneToThreeSamplePoints ==
    pc = "sampled" =>
        \A r \in DOMAIN git : \A f \in DOMAIN git[r] :
            git[r][f].log.kind = "ok" =>
                /\ samples_as_stated(history_of(r, f), output_of(r, f))
                /\ Len(commits_to_process_of(history_of(r, f))) \in 1 .. 3

\* C17, amended: the sample points of a file are h[0] if the history is not
\* empty, h[len // 2] if len > 4 and h[-1] if len > 1, in this order; there
\* are at most 3 of them, and none exactly when the history is empty.
C17_UpToThreeSamplePoints ==
    pc = "sampled" =>
        \A r \in DOMAIN git : \A f \in DOMAIN git[r] :
            git[r][f].log.kind = "ok" =>
                /\ samples_as_stated(history_of(r, f), output_of(r, f))
                /\ Len(commits_to_process_of(history_of(r, f))) \in 0 .. 3
                /\ Len(commits_to_process_of(history_of(r, f))) = 0
                       <=> history_of(r, f) = <<>>

C17_Witness ==
    /\ pc = "sampled"
    /\ Len(history_of("a", "f1")) = 5
    /\ Len(output_of("a", "f1")) = 3
    /\ output_of("a", "f1")[2].sha = 3

\* C19: the record of the middle sample point of a file (h[len // 2], chosen
\* when len > 4) never carries a 'content' field, whichever other sample
\* points were skipped or failed.
C19_MiddleSampleWithoutContent ==
    pc = "sampled" =>
        \A r \in DOMAIN git : \A f \in DOMAIN git[r] :
            LET h == history_of(r, f)
                out == output_of(r, f)
            IN (git[r][f].log.kind = "ok" /\ Len(h) > 4) =>
                   \A k \in 1 .. Len(out) :
                       out[k].sha = h[Len(h) \div 2 + 1].sha
                           => "content" \notin DOMAIN out[k]

(***************************************************************************)
(* Properties of _clean_diff (SpecClean).                                  *)
(***************************************************************************)
is_header_line(line) ==
    \/ starts_with(line, <<"d", "i", "f", "f", " ", "-", "-", "g", "i", "t">>)
    \/ starts_with(line, <<"i", "n", "d", "e", "x", " ">>)
    \/ starts_with(line, <<"n", "e", "w", " ", "f", "i", "l", "e", " ", "m", "o", "d", "e", " ">>)
    \/ starts_with(line, <<"d", "e", "l", "e", "t", "e", "d", " ", "f", "i", "l", "e", " ",
                           "m", "o", "d", "e", " ">>)

is_hunk_header(line) == starts_with(line, <<"@", "@", " ">>)

\* an added, removed or context line: a line of a hunk that starts with
\* "+", "-" or a blank
is_content_line(line) == line # <<>> /\ line[1] \in {"+", "-", " "}

\* what the claim says of a diff: in_hunk tells that a hunk header was read
\* since the last header line, so that the lines read are those of a hunk
RECURSIVE stated_clean(_, _)
stated_clean(lines, in_hunk) ==
    IF lines = <<>> THEN <<>>
    ELSE LET line == lines[1]
             rest == Tail(lines)
         IN IF is_header_line(line) THEN stated_clean(rest, FALSE)
            ELSE IF is_hunk_header(line) THEN <<line>> \o stated_clean(rest, TRUE)
            ELSE IF in_hunk /\ is_content_line(line) THEN <<line>> \o stated_clean(rest, TRUE)
            ELSE IF starts_with(line, <<"-", "-", "-", " ">>)
                    \/ starts_with(line, <<"+", "+", "+", " ">>)
            THEN IF contains(line, dev_null) THEN stated_clean(rest, FALSE)
                 ELSE <<after_last_slash(line)>> \o stated_clean(rest, FALSE)
            ELSE IF is_content_line(line) THEN <<line>> \o stated_clean(rest, in_hunk)
            ELSE stated_clean(rest, in_hunk)

\* C20: _clean_diff removes the header lines, replaces a file marker by the
\* bare file name, drops the /dev/null markers, and keeps every hunk header
\* and every added, removed and context line unchanged and in order,
\* whatever the text of the line.
C20_ContentLinesKept ==
    pc = "cleaned" => cleaned = stated_clean(raw_diff, FALSE)

(***************************************************************************)
(* Properties of _analyze_activity_patterns (SpecActivity).                *)
(***************************************************************************)
\* C18: on the empty list the result is the fixed one (0 commits per day, no
\* active hours, timezone "unknown"; intensity "low", duration "n/a",
\* frequency "sporadic"), and every result has exactly the keys frequency
\* {commits_per_day, active_hours, timezone_hint} and burst_patterns
\* {intensity, average_duration, frequency}.
C18_ActivityResultShape ==
    pc = "activity_done" =>
        /\ commit_times = <<>> =>
               /\ activity_patterns.frequency.commits_per_day = RInt(0)
               /\ activity_patterns.frequency.active_hours = <<>>
               /\ activity_patterns.frequency.timezone_hint = "unknown"
               /\ activity_patterns.burst_patterns.intensity = "low"
               /\ activity_patterns.burst_patterns.average_duration = "n/a"
               /\ activity_patterns.burst_patterns.frequency = "sporadic"
        /\ DOMAIN activity_patterns = {"frequency", "burst_patterns"}
        /\ DOMAIN activity_patterns.frequency
               = {"commits_per_day", "active_hours", "timezone_hint"}
        /\ DOMAIN activity_patterns.burst_patterns
               = {"intensity", "average_duration", "frequency"}

C18_Witness ==
    /\ pc = "activity_done"
    /\ commit_times = <<>>
    /\ activity_patterns.frequency.timezone_hint = "unknown"

(***************************************************************************)
(* Properties of StyleAnalyzer.analyze (SpecAnalyze).                      *)
(***************************************************************************)
sections == {"code_style_metrics", "temporal_patterns", "project_preferences",
             "identity_confidence"}

\* the units of a per-repository phase that failed are absent from its part
failed_absent(part, answers) ==
    \A r \in repos_of(sources_data) : answers[r] # "ok" => r \notin DOMAIN part

\* C11: whatever the language model does on each call (result, null or
\* exception) and whichever repository yields no commit contents, analyze
\* returns a profile with its four sections and does not raise, and the
\* units that failed are absent from it.
C11_PartialRunReturnsProfile ==
    (pc # "analyze" /\ sources_data # <<>>) =>
        /\ pc = "analyze_returned"
        /\ DOMAIN profile = sections
        /\ failed_absent(profile.code_style_metrics, llm.code_style)
        /\ failed_absent(profile.temporal_patterns.commit_style_metrics, llm.temporal)
        /\ failed_absent(profile.project_preferences, llm.preferences)

(***************************************************************************)
(* The caps of the score components (SpecScore).                           *)
(***************************************************************************)
\* C21: for every scored repository the recency component lies in [0, 35],
\* the activity component is at most 35, the contribution component is at
\* most 30 (at most 15 without contribution files), and the total is at most
\* 100.
C21_ComponentsCapped ==
    pc = "best_done" =>
        /\ RLe(RInt(0), recency_score(scored.stats))
        /\ RLe(recency_score(scored.stats), RInt(35))
        /\ RLe(commit_score(scored.stats), RInt(35))
        /\ RLe(contribution_score(scored.stats, scored.contribution_files), RInt(30))
        /\ scored.contribution_files = <<>> =>
               RLe(contribution_score(scored.stats, scored.contribution_files), RInt(15))
        /\ RLe(scored.analysis_score, RInt(100))

(***************************************************************************)
(* The order of a repository's pipeline (SpecPipeline).                    *)
(***************************************************************************)
happened_before(op, repo_name, i) ==
    \E j \in 1 .. (i - 1) : events[j] = event(op, repo_name)

\* no repository is scored before _get_repository_stats was called for it
scored_after_stats ==
    \A i \in 1 .. Len(events) :
        events[i].op = "score" => happened_before("stats", events[i].repo, i)

\* C22 as stated: every sampled repository was profiled and scored earlier
\* in the run, and no repository is scored before it was profiled.
C22_SampledWereScored ==
    /\ scored_after_stats
    /\ \A i \in 1 .. Len(events) :
          events[i].op = "sample" =>
              /\ happened_before("stats", events[i].repo, i)
              /\ happened_before("score", events[i].repo, i)

\* C22: no repository is scored before it was profiled; nothing is profiled
\* or scored after a repository was sampled; with the repo_selector every
\* sampled repository was profiled earlier, and it was scored earlier exactly
\* when its stats are not empty; with the default selector nothing is
\* profiled or scored.
C22_StatsScoreSampleInOrder ==
    /\ scored_after_stats
    /\ \A i \in 1 .. Len(events) :
          events[i].op = "sample" =>
              /\ \A j \in (i + 1) .. Len(events) : events[j].op = "sample"
              /\ selector = "repo_selector" =>
                    /\ happened_before("stats", events[i].repo, i)
                    /\ happened_before("score", events[i].repo, i)
                          <=> _get_repository_stats(checkout[events[i].repo].log,
                                                    feed_of(report_data, events[i].repo))
                                  # EmptyDict
    /\ selector = "default" => \A i \in 1 .. Len(events) : events[i].op = "sample"

C22_Witness ==
    /\ pc = "targets_sampled"
    /\ selector = "repo_selector"
    /\ \E i \in 1 .. Len(events) :
          /\ events[i] = event("sample", "a")
          /\ happened_before("score", "a", i)
          /\ happened_before("stats", "a", i)

(***************************************************************************)
(* The activity patterns of the temporal phase (SpecAnalyze).              *)
(***************************************************************************)
\* the temporal phase of the run that was made
temporal_phase == analyze_temporal_patterns(sources_data, report_data, llm.temporal)

\* the activity patterns of the commit timestamps of the report
activity_of_report == _analyze_activity_patterns(report_commit_times(report_data.commits))

\* C23: whatever sources_data, the answers of git to the sampler and the
\* answers of the language model are, analyze_temporal_patterns produces an
\* activity_patterns value, and it is the one the commit timestamps of the
\* report determine (so two runs on the same report commits produce equal
\* values).
C23_ActivityDependsOnReportOnly ==
    (pc # "analyze" /\ sources_data # <<>>) =>
        /\ ~temporal_phase.raised
        /\ temporal_phase.value.activity_patterns = activity_of_report
        /\ pc = "analyze_returned" =>
               profile.temporal_patterns.activity_patterns = activity_of_report

(***************************************************************************)
(* The labels of _analyze_activity_patterns (SpecActivity).                *)
(***************************************************************************)
commits_at(h) == Cardinality({i \in 1 .. Len(commit_times) : commit_times[i].hour = h})

most_frequent_hours ==
    {h \in 0 .. 23 : commits_at(h) > 0 /\ \A g \in 0 .. 23 : commits_at(g) <= commits_at(h)}

stated_band(p) ==
    IF p \in 4 .. 8 THEN "UTC+8 to UTC+10"
    ELSE IF p \in 9 .. 12 THEN "UTC+0 to UTC+2"
    ELSE IF p \in 13 .. 16 THEN "UTC-6 to UTC-4"
    ELSE IF p \in 17 .. 20 THEN "UTC-12 to UTC-8"
    ELSE "unclear"

mean_gap ==
    Rat(minutes_of(commit_times[Len(commit_times)]) - minutes_of(commit_times[1]),
        60 * (Len(commit_times) - 1))

reported_commits_per_day == activity_patterns.frequency.commits_per_day

\* C25: with at least two commit times, m the mean gap in hours and c the
\* reported commits_per_day: intensity is "high" if m < 1, "moderate" if
\* 1 <= m < 4, else "low"; average_duration is "few hours" if m < 4,
\* "day-length" if 4 <= m < 24, else "multi-day"; frequency is "frequent" if
\* c > 3, "regular" if 1 < c <= 3, else "sporadic".
C25_BurstLabels ==
    (pc = "activity_done" /\ Len(commit_times) >= 2) =>
        /\ activity_patterns.burst_patterns.intensity
              = (IF RLt(mean_gap, RInt(1)) THEN "high"
                 ELSE IF RLt(mean_gap, RInt(4)) THEN "moderate" ELSE "low")
        /\ activity_patterns.burst_patterns.average_duration
              = (IF RLt(mean_gap, RInt(4)) THEN "few hours"
                 ELSE IF RLt(mean_gap, RInt(24)) THEN "day-length" ELSE "multi-day")
        /\ activity_patterns.burst_patterns.frequency
              = (IF RLt(RInt(3), reported_commits_per_day) THEN "frequent"
                 ELSE IF RLt(RInt(1), reported_commits_per_day) THEN "regular"
                 ELSE "sporadic")

C25_Witness ==
    /\ pc = "activity_done"
    /\ Len(commit_times) = 5
    /\ mean_gap = RInt(4)
    /\ activity_patterns.burst_patterns
          = [intensity |-> "low", average_duration |-> "day-length", frequency |-> "frequent"]

\* the hours of the day with more than a tenth of all commits
busy_hours == {h \in 0 .. 23 : 10 * commits_at(h) > Len(commit_times)}

\* "HH-HH+1" for the hours of the day
stated_format(h) ==
    CASE h = 0 -> <<"0", "0", "-", "0", "1">>
      [] h = 8 -> <<"0", "8", "-", "0", "9">>
      [] h = 9 -> <<"0", "9", "-", "1", "0">>
      [] h = 19 -> <<"1", "9", "-", "2", "0">>
      [] h = 23 -> <<"2", "3", "-", "2", "4">>
      [] OTHER -> <<decimal_digits[(h \div 10) + 1], decimal_digits[(h % 10) + 1], "-",
                    decimal_digits[((h + 1) \div 10) + 1], decimal_digits[((h + 1) % 10) + 1]>>

listed_hours == activity_patterns.frequency.active_hours
hour_listed_at(k) == CHOOSE h \in 0 .. 23 : stated_format(h) = listed_hours[k]

\* C26: active_hours lists at most 3 hours, each as "HH-HH+1" in two digits,
\* each with strictly more than 10% of all commits, in descending frequency,
\* all of them among the 3 most frequent hours: min(3, number of hours above
\* 10%) are listed, and an hour that is not listed has a share of at most
\* 10% or at least 3 hours that are at least as frequent.
C26_ActiveHours ==
    (pc = "activity_done" /\ commit_times # <<>>) =>
        /\ Len(listed_hours) <= 3
        /\ \A k \in 1 .. Len(listed_hours) :
              /\ \E h \in busy_hours : listed_hours[k] = stated_format(h)
              /\ Cardinality({g \in 0 .. 23 :
                                 commits_at(g) > commits_at(hour_listed_at(k))}) < 3
              /\ \A j \in 1 .. (k - 1) :
                    /\ listed_hours[j] # listed_hours[k]
                    /\ commits_at(hour_listed_at(j)) >= commits_at(hour_listed_at(k))
        /\ Len(listed_hours) = Min(3, Cardinality(busy_hours))
        /\ \A g \in busy_hours :
              (\A k \in 1 .. Len(listed_hours) : listed_hours[k] # stated_format(g))
                  => Cardinality({h \in 0 .. 23 : h # g /\ commits_at(h) >= commits_at(g)}) >= 3

C26_Witness ==
    /\ pc = "activity_done"
    /\ Cardinality(busy_hours) = 4
    /\ listed_hours = <<stated_format(0), stated_format(1), stated_format(2)>>
    /\ 3 \in busy_hours

\* the whole days between the earliest and the latest commit time
days_spanned ==
    LET earliest == CHOOSE t \in Range(commit_times) :
                        \A o \in Range(commit_times) : minutes_of(t) <= minutes_of(o)
        latest == CHOOSE t \in Range(commit_times) :
                      \A o \in Range(commit_times) : minutes_of(t) >= minutes_of(o)
    IN (minutes_of(latest) - minutes_of(earliest)) \div (24 * 60)

\* c is x rounded to 2 decimals: a number of hundredths, none nearer to x
rounded_to_hundredths(c, x) ==
    /\ \E k \in 0 .. 100 * Len(commit_times) : c = Rat(k, 100)
    /\ RLe(RSub(c, x), Rat(1, 200))
    /\ RLe(RSub(x, c), Rat(1, 200))

\* C27: for a non-empty list commits_per_day is count / max(d, 1) rounded to
\* 2 decimals, d the whole days between the earliest and the latest commit
\* time, in whatever order the times were supplied; a list that spans less
\* than a day has commits_per_day equal to the number of commits.
C27_CommitsPerDay ==
    (pc = "activity_done" /\ commit_times # <<>>) =>
        /\ rounded_to_hundredths(reported_commits_per_day,
                                 Rat(Len(commit_times), Max(days_spanned, 1)))
        /\ days_spanned = 0 => reported_commits_per_day = RInt(Len(commit_times))

C27_Witness ==
    /\ pc = "activity_done"
    /\ Len(commit_times) = 5
    /\ days_spanned = 6
    /\ reported_commits_per_day = Rat(83, 100)

(***************************************************************************)
(* repo_metadata over several calls (SpecReselect).                        *)
(***************************************************************************)
\* C28: after any sequence of calls of select_repositories the keys of
\* repo_metadata are among the names the latest call that returned has
\* returned: an entry of an earlier call for a repository the latest call
\* did not select is gone.
C28_MetadataOfLatestCall ==
    calls >= 1 =>
        /\ DOMAIN repo_metadata \subseteq Range(sources_to_analyze)
        /\ pc = "selected" =>
               \A r \in previous_names :
                   r \notin Range(sources_to_analyze) => r \notin DOMAIN repo_metadata

C28_Witness ==
    /\ pc = "selected"
    /\ calls = 2
    /\ "a" \in previous_names
    /\ DOMAIN repo_metadata = {"b"}
    /\ Range(sources_to_analyze) = {"b"}

(***************************************************************************)
(* The calls of the language model in the temporal phase (SpecAnalyze).    *)
(***************************************************************************)
is_temporal_target(r) ==
    /\ r \in DOMAIN report_data.commits
    /\ Len(report_data.commits[r]) >= 5
    /\ \E i \in 1 .. Len(sources_data) :
          sources_data[i].repo = r /\ sources_data[i].file_count >= 10

has_sampler_entry(r) == r \in DOMAIN commit_contents /\ commit_contents[r] # EmptyDict

timestamps_known(repo_name) ==
    checkout[repo_name].log.stdout # <<>> \/ feed_of(report_data, repo_name) # <<>>

\* C30: every repository _analyze_repositories hands to the scorer has a
\* non-empty stats object with commit_count >= 1, active_days >= 1 and a
\* last_commit, and a repository with a checkout but no timestamp in either
\* source is not handed over.
C30_ScoredHaveCompleteStats ==
    pc # "start" =>
        /\ \A i \in 1 .. Len(given) :
              /\ given[i].stats # EmptyDict
              /\ "last_commit" \in DOMAIN given[i].stats
              /\ given[i].stats.commit_count >= 1
              /\ given[i].stats.active_days >= 1
        /\ \A r \in Repos :
              checkout[r].exists /\ ~timestamps_known(r) =>
                  \A i \in 1 .. Len(given) : given[i].name # r

====
